---------------------------- MODULE Spec2Model ----------------------------
(***************************************************************************)
(* A model of the script generator backend (src/app.py): the per-user      *)
(* session store and its request handlers, the background transcript       *)
(* extraction of a video, the document extractor and the text budgeting    *)
(* done before every analysis call.                                        *)
(*                                                                         *)
(* Fifteen specifications share the module:                                 *)
(*   Spec         the session store, its handlers and background threads   *)
(*   SpecScript   the documents, script generation and script editing      *)
(*   SpecAnalysis the store with an analysis LLM that may fail             *)
(*   SpecCache    the store with topic insights and clear_cache            *)
(*   SpecExtract  VideoProcessor.extract_transcript_details, step by step  *)
(*   SpecDoc      DocumentProcessor.process_document on one file           *)
(*   SpecBudget   the combined text the three analyze_* methods submit     *)
(*   SpecClients  two clients of the server and the buckets they resolve to *)
(*   SpecRate     rate_limit_wait and the fetches of concurrent callers     *)
(*   SpecStatus   get_status over stores with videos in every state         *)
(*   SpecUrl      one URL through validate_youtube_url and extract_video_id *)
(*   SpecGemini   generate_gemini_content of src/test.py, attempt by attempt *)
(*   SpecFlight   analyze_content and generate_from_prompt taken in steps    *)
(*   SpecRequests every request handler of the store, with an unreliable LLM *)
(*   SpecLive     the store under fair scheduling of its threads             *)
(***************************************************************************)
EXTENDS Integers, Sequences, FiniteSets, TLC

VARIABLES
    folders,        \* user_data[user]['folders']: folder_id -> folder
    documents,      \* user_data[user]['documents']: file_id -> document
    analysis_cache, \* user_data[user]['analysis_cache']
    current_script, \* user_data[user]['current_script']
    insights_cache, \* user_data[user]['insights_cache']: topic -> entry
    chat_sessions,  \* user_data[user]['chat_sessions']: id -> session
    threads,        \* the process_video thread of each video id
    ids,            \* uuid4() values consumed, edit requests accepted
    last,           \* the last request served and its response
    llm,            \* the answers the LLM service may give in this run, per use
    ex,             \* one run of extract_transcript_details
    dp,             \* one run of process_document
    bud,            \* one run of an analyze_* text budgeting
    cl,             \* the clients of the server: their cookies and user_data
    rl,             \* the callers of VideoProcessor.rate_limit_wait and the clock
    ur,             \* one URL on its way through validation and extraction
    gm,             \* one run of generate_gemini_content (src/test.py)
    rq              \* the requests in flight in the handlers taken step by step

storeVars == <<folders, documents, analysis_cache, current_script,
               insights_cache, chat_sessions, threads, ids, last, llm>>
vars == <<folders, documents, analysis_cache, current_script,
          insights_cache, chat_sessions, threads, ids, last, llm, ex, dp, bud, cl, rl, ur,
          gm, rq>>

GmIdle == [pc |-> "idle"]
RqIdle == [pc |-> "idle"]

None == "None"
\* None where a str is expected.
NoText == << [src |-> "None", lo |-> 0, hi |-> 0] >>

Min(a, b) == IF a < b THEN a ELSE b
Max(a, b) == IF a > b THEN a ELSE b

(***************************************************************************)
(* Text.  A Python str is modelled as the sequence of the pieces it is     *)
(* made of: a piece [src, lo, hi] is the characters lo..hi-1 of the        *)
(* material src (an input text, a literal, a run of whitespace).  Adjacent *)
(* pieces of one material that continue each other are one piece, so two   *)
(* equal sequences are equal strings.  Whitespace is the material "ws",    *)
(* one run of it being told from another only by its length.  Lengths are  *)
(* the real lengths.                                                       *)
(***************************************************************************)
Seg(src, lo, hi) == [src |-> src, lo |-> lo, hi |-> hi]

Lit(src, n) == IF n = 0 THEN << >> ELSE << Seg(src, 0, n) >>

RECURSIVE StrLen(_)
StrLen(t) == IF t = << >> THEN 0 ELSE (t[1].hi - t[1].lo) + StrLen(Tail(t))

Concat(a, b) ==
    IF a = << >> THEN b
    ELSE IF b = << >> THEN a
    ELSE LET x == a[Len(a)]
             y == b[1]
         IN  IF x.src = "ws" /\ y.src = "ws"
             THEN SubSeq(a, 1, Len(a) - 1)
                  \o << Seg("ws", 0, (x.hi - x.lo) + (y.hi - y.lo)) >> \o Tail(b)
             ELSE IF x.src = y.src /\ x.hi = y.lo
             THEN SubSeq(a, 1, Len(a) - 1) \o << Seg(x.src, x.lo, y.hi) >> \o Tail(b)
             ELSE a \o b

\* The characters at positions a .. b-1 of t (nothing when a >= b).
RECURSIVE Cut(_, _, _)
Cut(t, a, b) ==
    IF t = << >> THEN << >>
    ELSE LET n == t[1].hi - t[1].lo
             lo == Max(a, 0)
             hi == Min(b, n)
             head == IF lo >= hi THEN << >>
                     ELSE IF t[1].src = "ws" THEN << Seg("ws", 0, hi - lo) >>
                     ELSE << Seg(t[1].src, t[1].lo + lo, t[1].lo + hi) >>
         IN  Concat(head, Cut(Tail(t), a - n, b - n))

\* Python's reading of a slice bound i on a string of length n.
PyIndex(i, n) == IF i < 0 THEN Max(n + i, 0) ELSE Min(i, n)

\* t[i:j]
PySlice(t, i, j) == Cut(t, PyIndex(i, StrLen(t)), PyIndex(j, StrLen(t)))
\* t[:j]
PyUpTo(t, j) == PySlice(t, 0, j)
\* t[i:]   (t[-k:] is PyFrom(t, -k); -0 is 0, the whole string)
PyFrom(t, i) == PySlice(t, i, StrLen(t))

\* sep.join(texts)
RECURSIVE Join(_, _)
Join(sep, texts) ==
    IF texts = << >> THEN << >>
    ELSE IF Len(texts) = 1 THEN texts[1]
    ELSE Concat(Concat(texts[1], sep), Join(sep, Tail(texts)))

IsSpace(p) == p.src = "ws"

\* t.strip()
RECURSIVE LStrip(_)
LStrip(t) == IF t # << >> /\ IsSpace(t[1]) THEN LStrip(Tail(t)) ELSE t
RECURSIVE RStrip(_)
RStrip(t) ==
    IF t # << >> /\ IsSpace(t[Len(t)]) THEN RStrip(SubSeq(t, 1, Len(t) - 1)) ELSE t
Strip(t) == RStrip(LStrip(t))

Newlines(n) == Lit("ws", n)

(***************************************************************************)
(* The text budgeting of EnhancedScriptGenerator.analyze_creator_style,    *)
(* analyze_inspiration_content and analyze_documents: what is appended to  *)
(* the analysis prompt.  max_chars is a local of each method; the          *)
(* operators take it as a parameter so that the sampling can be examined   *)
(* at the program's values and at small ones.                              *)
(***************************************************************************)
max_chars_style == 50000
max_chars_inspiration == 50000
max_chars_documents == 60000

\* "\n\n---VIDEO SEPARATOR---\n\n"
VideoSeparator == Concat(Concat(Newlines(2), Lit("video_sep", 21)), Newlines(2))
\* "\n\n---DOCUMENT SEPARATOR---\n\n"
DocumentSeparator == Concat(Concat(Newlines(2), Lit("doc_sep", 24)), Newlines(2))
\* "\n\n[...CONTENT CONTINUES...]\n\n"
StyleMarker == Concat(Concat(Newlines(2), Lit("content_continues", 25)), Newlines(2))
\* "\n[...CONTENT CONTINUES...]\n"
InspirationMarker == Concat(Concat(Newlines(1), Lit("content_continues", 25)), Newlines(1))
\* "\n[...DOCUMENT CONTINUES...]\n"
DocumentMarker == Concat(Concat(Newlines(1), Lit("document_continues", 26)), Newlines(1))

StyleOverBudgetAtOrAbove(combined, max_chars) == StrLen(combined) >= max_chars
StyleOverBudget(combined, max_chars) == StrLen(combined) > max_chars

StyleCombined(personal_transcripts, max_chars) ==
    LET combined == Join(VideoSeparator, personal_transcripts)
    IN  IF StyleOverBudget(combined, max_chars)
        THEN LET chunk_size == max_chars \div 3
                 start_chunk == PyUpTo(combined, chunk_size)
                 middle_start == (StrLen(combined) \div 2) - (chunk_size \div 2)
                 middle_chunk == PySlice(combined, middle_start, middle_start + chunk_size)
                 end_chunk == PyFrom(combined, -chunk_size)
             IN  Concat(Concat(Concat(Concat(start_chunk, StyleMarker), middle_chunk),
                               StyleMarker), end_chunk)
        ELSE combined

\* One item of the per-item sampling loop.
SampleItem(text, chunk_size, marker) ==
    IF StrLen(text) > chunk_size
    THEN LET half_chunk == chunk_size \div 2
         IN  Concat(Concat(PyUpTo(text, half_chunk), marker), PyFrom(text, -half_chunk))
    ELSE text

SampleEach(texts, chunk_size, marker) ==
    [i \in 1..Len(texts) |-> SampleItem(texts[i], chunk_size, marker)]

PerItemCombined(texts, max_chars, sep, marker) ==
    LET combined == Join(sep, texts)
    IN  IF StrLen(combined) > max_chars
        THEN LET chunk_size == IF Len(texts) > 1 THEN max_chars \div Len(texts)
                                                ELSE max_chars
             IN  Join(sep, SampleEach(texts, chunk_size, marker))
        ELSE combined

InspirationCombined(inspiration_transcripts, max_chars) ==
    PerItemCombined(inspiration_transcripts, max_chars, VideoSeparator, InspirationMarker)

DocumentsCombined(document_texts, max_chars) ==
    PerItemCombined(document_texts, max_chars, DocumentSeparator, DocumentMarker)

(***************************************************************************)
(* SpecBudget: one analyze_* method applied to a list of texts.            *)
(***************************************************************************)
MaxTexts == 3
MaxSmallBudget == 3

\* The lengths of the texts tried: short ones, and ones at and around the
\* budgets of the program.
TextLens == {1, 2, 50, 24975, 25000, 50000, 60000, 60001}

TextNames == << "t1", "t2", "t3", "t4", "t5", "t6" >>

InputText(i, n) == << Seg(TextNames[i], 0, n) >>

BudgetFns == {"style", "inspiration", "documents"}

\* The budget of each method, and for the two methods that share the budget
\* among the items the small budgets where the share reaches 0 and 1.
Budgets(fn) ==
    CASE fn = "style" -> {max_chars_style}
      [] fn = "inspiration" -> {max_chars_inspiration} \cup 0..MaxSmallBudget
      [] fn = "documents" -> {max_chars_documents} \cup 0..MaxSmallBudget

Combined(fn, texts, max_chars) ==
    CASE fn = "style" -> StyleCombined(texts, max_chars)
      [] fn = "inspiration" -> InspirationCombined(texts, max_chars)
      [] fn = "documents" -> DocumentsCombined(texts, max_chars)

SeparatorOf(fn) == IF fn = "documents" THEN DocumentSeparator ELSE VideoSeparator
MarkerOf(fn) ==
    CASE fn = "style" -> StyleMarker
      [] fn = "inspiration" -> InspirationMarker
      [] fn = "documents" -> DocumentMarker

BudIdle == [pc |-> "idle"]

BudTexts(b) == [i \in 1..Len(b.lens) |-> InputText(i, b.lens[i])]

BudgetInit ==
    \E fn \in BudgetFns, n \in 1..MaxTexts :
        \E lens \in [1..n -> TextLens], m \in Budgets(fn) :
            bud = [pc |-> "in", fn |-> fn, lens |-> lens, max_chars |-> m]

BudgetApply ==
    /\ bud.pc = "in"
    /\ bud' = [bud EXCEPT !.pc = "out"] @@
              [out |-> Combined(bud.fn, BudTexts(bud), bud.max_chars)]
    /\ UNCHANGED <<storeVars, cl, rl, ur, ex, dp, gm, rq>>

(***************************************************************************)
(* DocumentProcessor.  A file is what its extension and its extraction     *)
(* methods give: first the text the format's method returns (or that it    *)
(* raised), and for a PDF second the text and outcome of the PyPDF2        *)
(* fallback.                                                               *)
(***************************************************************************)
max_chars == 100000
min_chars == 50

\* "\n\n[Document truncated for processing...]"
TruncationMarker == Concat(Newlines(2), Lit("truncated", 38))

ALLOWED_EXTENSIONS == {"txt", "pdf", "doc", "docx"}

\* extract_text_from_pdf: the text returned, or None.
extract_text_from_pdf(file) ==
    LET text1 == file.first.text             \* what PyMuPDF appended to text
    IN  IF ~file.first.raised /\ StrLen(Strip(text1)) > min_chars
        THEN text1
        ELSE IF file.second.raised THEN NoText
        ELSE LET text2 == Concat(text1, file.second.text)
             IN  IF StrLen(Strip(text2)) > min_chars THEN text2 ELSE NoText

\* extract_text_from_docx, extract_text_from_doc, extract_text_from_txt:
\* the text read, or None when reading raised.
extract_text_simple(file) == IF file.first.raised THEN NoText ELSE file.first.text

extract_method(file) ==
    IF file.ext = "pdf" THEN extract_text_from_pdf(file) ELSE extract_text_simple(file)

_calculate_document_stats(text) == [char_count |-> StrLen(text)]

NoStats == [char_count |-> -1]
DocFailed(msg) == [error |-> msg, text |-> NoText, stats |-> NoStats]

\* if len(text) > self.max_chars: text = text[:self.max_chars] + marker
TruncateAtCeiling(text) ==
    IF StrLen(text) >= max_chars
    THEN Concat(PyUpTo(text, max_chars), TruncationMarker)
    ELSE text
Truncate(text) ==
    IF StrLen(text) > max_chars
    THEN Concat(PyUpTo(text, max_chars), TruncationMarker)
    ELSE text

process_document(file) ==
    IF file.ext \notin {"pdf", "docx", "doc", "txt"}
    THEN DocFailed("Unsupported file format")
    ELSE LET text == extract_method(file)
         IN  IF text = NoText \/ text = << >> \/ StrLen(Strip(text)) < min_chars
             THEN DocFailed("Could not extract meaningful text from document")
             ELSE [error |-> None, text |-> Truncate(text),
                   stats |-> _calculate_document_stats(Truncate(text))]

(***************************************************************************)
(* SpecDoc: process_document applied to one file.                          *)
(***************************************************************************)
\* A text of lead whitespace characters, core characters of content and
\* trail whitespace characters.
DocText(lead, core, trail) ==
    Concat(Concat(Newlines(lead), Lit("doc", core)), Newlines(trail))

DocLeads == {0, 3, 100000}
DocCores == {0, 40, 49, 50, 51, 99998, 100000, 100001}
DocTrails == {0, 2}

DocTexts == {DocText(l, c, t) : l \in DocLeads, c \in DocCores, t \in DocTrails}

Extracted(text, raised) == [text |-> text, raised |-> raised]
NoSecond == Extracted(<< >>, TRUE)

\* The fallback outputs tried for a PDF.
PdfSeconds == {NoSecond, Extracted(DocText(0, 40, 0), FALSE),
               Extracted(DocText(1, 51, 0), FALSE), Extracted(<< >>, FALSE)}

DocFiles ==
    {[ext |-> e, first |-> Extracted(t, r), second |-> NoSecond] :
        e \in {"txt", "docx", "doc", "xyz"}, t \in DocTexts, r \in BOOLEAN}
    \cup
    {[ext |-> "pdf", first |-> Extracted(t, r), second |-> s] :
        t \in DocTexts, r \in BOOLEAN, s \in PdfSeconds}

DpIdle == [pc |-> "idle"]

DocInit == \E f \in DocFiles : dp = [pc |-> "in", file |-> f]

DocProcess ==
    /\ dp.pc = "in"
    /\ dp' = [pc |-> "done", file |-> dp.file, result |-> process_document(dp.file)]
    /\ UNCHANGED <<storeVars, cl, rl, ur, ex, bud, gm, rq>>

(***************************************************************************)
(* VideoProcessor.extract_transcript_details.  The remote provider answers *)
(* each call (the direct fetch, the transcript listing, the fetch of the   *)
(* selected transcript) with a text or with an exception; an exception is  *)
(* its type and, for the types the code tells apart by their message, the  *)
(* class of substrings the message holds.                                  *)
(***************************************************************************)
default_max_retries == 3

\* Exceptions caught by type.
TypedErrors == {"NoTranscriptFound", "VideoUnavailable", "TranscriptsDisabled"}
\* Other exceptions, by what str(e).lower() contains.
MessageErrors == {"rate_limit", "forbidden", "not_found", "blocked", "generic"}

FetchOutcomes == {"long", "short"} \cup TypedErrors \cup MessageErrors
\* ytt_api.list and the find_* cascade: a transcript was selected, the list
\* is empty, or the listing raised.
ListOutcomes == {"selected", "none_available"} \cup TypedErrors \cup MessageErrors

\* The result of extract_transcript_details; exception is the str(e) that the
\* error message ends with, for the two messages that are built from one.
ExFailed(msg) == [error |-> msg, transcript |-> None, exception |-> None]
ExFailedWith(msg, e) == [error |-> msg, transcript |-> None, exception |-> e]
ExSucceeded == [error |-> None, transcript |-> "transcript", exception |-> None]

\* The rate-limit branch retries on every attempt but the last.
RateLimitRetriesOnceMore(attempt, max_retries) == attempt < max_retries
RateLimitRetries(attempt, max_retries) == attempt < max_retries - 1

ExIdle == [pc |-> "idle"]

ExtractInit ==
    \E ok \in BOOLEAN, m \in 1..default_max_retries :
        ex = [pc |-> "start", video_id_ok |-> ok, max_retries |-> m,
              attempt |-> 0, calls |-> 0, signal |-> None, step |-> None,
              only_rate_limited |-> TRUE, result |-> ExFailed(None)]

ExReturn(e, result) == [e EXCEPT !.pc = "done", !.result = result]

\* `continue`, or falling off the end of the loop body: the next iteration
\* of `for attempt in range(max_retries)`, or the statement after the loop.
ExContinue(e) ==
    IF e.attempt + 1 < e.max_retries
    THEN [e EXCEPT !.attempt = e.attempt + 1, !.pc = "fetch"]
    ELSE ExReturn(e, ExFailed("Failed to fetch transcript after multiple attempts"))

\* A provider call at step `step` answered `o`.
ExCalled(e, step, o) ==
    [e EXCEPT !.calls = e.calls + 1, !.signal = o, !.step = step,
              !.only_rate_limited = e.only_rate_limited /\ o = "rate_limit"]

\* except VideoUnavailable / TranscriptsDisabled / Exception of the outer try.
ExOuterExcept(e, o) ==
    CASE o = "VideoUnavailable" ->
            ExReturn(e, ExFailed("Video is unavailable, private, or doesn't exist"))
      [] o = "TranscriptsDisabled" ->
            ExReturn(e, ExFailed("Transcripts are disabled for this video"))
      [] o = "rate_limit" ->
            IF RateLimitRetries(e.attempt, e.max_retries)
            THEN ExContinue(e)
            ELSE ExReturn(e, ExFailed("API rate limit exceeded. Please try again in a few minutes"))
      [] o = "forbidden" ->
            ExReturn(e, ExFailed("Access forbidden. Video might be private or restricted"))
      [] o = "not_found" ->
            ExReturn(e, ExFailed("Video not found. Please check the URL"))
      [] o = "blocked" ->
            ExReturn(e, ExFailed("IP address blocked by YouTube. Try using a VPN or proxy"))
      [] OTHER ->
            IF e.attempt = e.max_retries - 1
            THEN ExReturn(e, ExFailedWith("Error fetching transcript after attempts: ", o))
            ELSE ExContinue(e)

\* except Exception as inner_e, around the listing and the selected fetch.
ExInnerExcept(e) ==
    IF e.attempt = e.max_retries - 1
    THEN ExReturn(e, ExFailedWith("Could not access transcript list - ", e.signal))
    ELSE ExContinue(e)

\* rate_limit_wait, extract_video_id and the entry into the loop.
ExBegin ==
    /\ ex.pc = "start"
    /\ ex' = IF ~ex.video_id_ok
             THEN ExReturn(ex, ExFailed("Invalid YouTube URL format"))
             ELSE IF 0 < ex.max_retries
             THEN [ex EXCEPT !.pc = "fetch"]
             ELSE ExReturn(ex, ExFailed("Failed to fetch transcript after multiple attempts"))
    /\ UNCHANGED <<storeVars, cl, rl, ur, dp, bud, gm, rq>>

\* ytt_api.fetch(video_id, languages=...)
ExDirectFetch ==
    /\ ex.pc = "fetch"
    /\ \E o \in FetchOutcomes :
        LET e == ExCalled(ex, "fetch", o)
        IN  ex' = CASE o = "long" -> ExReturn(e, ExSucceeded)
                    [] o \in {"short", "NoTranscriptFound"} -> [e EXCEPT !.pc = "list"]
                    [] OTHER -> ExOuterExcept(e, o)
    /\ UNCHANGED <<storeVars, cl, rl, ur, dp, bud, gm, rq>>

\* ytt_api.list(video_id) and the choice of a transcript.
ExList ==
    /\ ex.pc = "list"
    /\ \E o \in ListOutcomes :
        LET e == ExCalled(ex, "list", o)
        IN  ex' = CASE o = "selected" -> [e EXCEPT !.pc = "fetch_selected"]
                    [] o = "none_available" ->
                        ExReturn(e, ExFailed("No transcripts available for this video"))
                    [] OTHER -> ExInnerExcept(e)
    /\ UNCHANGED <<storeVars, cl, rl, ur, dp, bud, gm, rq>>

\* transcript.fetch() and the length check.
ExFetchSelected ==
    /\ ex.pc = "fetch_selected"
    /\ \E o \in FetchOutcomes :
        LET e == ExCalled(ex, "fetch_selected", o)
        IN  ex' = CASE o = "long" -> ExReturn(e, ExSucceeded)
                    [] o = "short" ->
                        ExReturn(e, ExFailed("Transcript too short or incomplete"))
                    [] OTHER -> ExInnerExcept(e)
    /\ UNCHANGED <<storeVars, cl, rl, ur, dp, bud, gm, rq>>

(***************************************************************************)
(* VideoProcessor.rate_limit_wait and the remote fetches that follow it,   *)
(* for the threads that call extract_transcript_details on the one shared  *)
(* video_processor.  Time is a clock in seconds that advances between the  *)
(* steps of the callers; a sleeping caller resumes when the clock has      *)
(* reached the end of its sleep.  The two most recent remote fetches of    *)
(* the process are kept.                                                   *)
(***************************************************************************)
rate_limit_delay == 2
default_retry_delay == 2

MaxCallers == 2
MaxCalls == 2
MaxAttempts == 2
MaxTime == 7

Callers == 1..MaxCallers
RlIdle == [pc |-> "idle"]

\* No fetch yet.
NoFetch == [by |-> 0, call |-> 0, at |-> 0, first |-> FALSE]

\* self.last_api_call = 0 of __init__, while time.time() is far from 0.
RateInit ==
    rl = [now |-> rate_limit_delay, last_api_call |-> 0,
          caller |-> [c \in Callers |->
                        [pc |-> "idle", call |-> 0, attempt |-> 0, wake |-> 0,
                         checked |-> 0, slept |-> FALSE]],
          fetch |-> NoFetch, prev |-> NoFetch]

RlAt(c, pc) == rl.caller[c].pc = pc
RlGoto(c, pc) == [rl EXCEPT !.caller[c].pc = pc]

\* A remote fetch of caller c starts now; it is the first of its call when
\* it is the direct fetch of attempt 0.
RlFetched(r, c, first) ==
    [r EXCEPT !.prev = r.fetch,
              !.fetch = [by |-> c, call |-> r.caller[c].call, at |-> r.now,
                         first |-> first]]

\* The clock advances.
RlTick ==
    /\ rl.now < MaxTime
    /\ rl' = [rl EXCEPT !.now = rl.now + 1]
    /\ UNCHANGED <<storeVars, ex, dp, bud, cl, ur, gm, rq>>

\* extract_transcript_details is called; rate_limit_wait reads the clock and
\* last_api_call, and sleeps when the last call is too recent.
RlCheck ==
    /\ \E c \in Callers :
        /\ RlAt(c, "idle")
        /\ rl.caller[c].call < MaxCalls
        /\ LET time_since_last_call == rl.now - rl.last_api_call
               sleeps == time_since_last_call < rate_limit_delay
           IN  rl' = [rl EXCEPT !.caller[c] =
                        [pc |-> IF sleeps THEN "sleep" ELSE "record",
                         call |-> rl.caller[c].call + 1, attempt |-> 0,
                         wake |-> IF sleeps
                                  THEN rl.now + (rate_limit_delay - time_since_last_call)
                                  ELSE rl.now,
                         checked |-> rl.last_api_call, slept |-> sleeps]]
    /\ UNCHANGED <<storeVars, ex, dp, bud, cl, ur, gm, rq>>

\* time.sleep(sleep_time) of rate_limit_wait returns.
RlWake ==
    /\ \E c \in Callers :
        /\ RlAt(c, "sleep")
        /\ rl.now >= rl.caller[c].wake
        /\ rl' = RlGoto(c, "record")
    /\ UNCHANGED <<storeVars, ex, dp, bud, cl, ur, gm, rq>>

\* self.last_api_call = time.time()
RlRecord ==
    /\ \E c \in Callers :
        /\ RlAt(c, "record")
        /\ rl' = [RlGoto(c, "fetch") EXCEPT !.last_api_call = rl.now]
    /\ UNCHANGED <<storeVars, ex, dp, bud, cl, ur, gm, rq>>

\* The end of an attempt that neither returned nor was the last: the next
\* iteration sleeps retry_delay * (attempt + 1) before its fetch.
RlNextAttempt(r, c) ==
    LET attempt == r.caller[c].attempt + 1
    IN  IF attempt < MaxAttempts
        THEN [r EXCEPT !.caller[c].attempt = attempt,
                       !.caller[c].pc = "retry_sleep",
                       !.caller[c].wake = r.now + default_retry_delay * (attempt + 1)]
        ELSE [r EXCEPT !.caller[c].pc = "idle"]

\* ytt_api.fetch(video_id, ...): it returns a transcript, finds none (the
\* listing follows), or fails in a way that is retried or returned.
RlDirectFetch ==
    /\ \E c \in Callers, o \in {"long", "NoTranscriptFound", "rate_limit", "forbidden"} :
        /\ RlAt(c, "fetch")
        /\ LET r == RlFetched(rl, c, rl.caller[c].attempt = 0)
           IN  rl' = CASE o = "long" -> [r EXCEPT !.caller[c].pc = "idle"]
                       [] o = "NoTranscriptFound" -> [r EXCEPT !.caller[c].pc = "list"]
                       [] o = "rate_limit" -> RlNextAttempt(r, c)
                       [] o = "forbidden" -> [r EXCEPT !.caller[c].pc = "idle"]
    /\ UNCHANGED <<storeVars, ex, dp, bud, cl, ur, gm, rq>>

\* ytt_api.list(video_id), the choice of a transcript and transcript.fetch()
RlFetchSelected ==
    /\ \E c \in Callers, o \in {"long", "generic"} :
        /\ RlAt(c, "list")
        /\ LET r == RlFetched(rl, c, FALSE)
           IN  rl' = IF o = "long" THEN [r EXCEPT !.caller[c].pc = "idle"]
                     ELSE RlNextAttempt(r, c)
    /\ UNCHANGED <<storeVars, ex, dp, bud, cl, ur, gm, rq>>

\* time.sleep(wait_time) at the head of a retry returns.
RlRetryWake ==
    /\ \E c \in Callers :
        /\ RlAt(c, "retry_sleep")
        /\ rl.now >= rl.caller[c].wake
        /\ rl' = RlGoto(c, "fetch")
    /\ UNCHANGED <<storeVars, ex, dp, bud, cl, ur, gm, rq>>

(***************************************************************************)
(* URLs.  A URL is the sequence of its pieces: the scheme, "//", the       *)
(* pieces of the host, and the words and the separators / ? & = # of the   *)
(* rest.  A substring test and a regular expression of the program are     *)
(* evaluated on the pieces.                                                *)
(***************************************************************************)
Url(scheme, host, rest) == << scheme, "//" >> \o host \o rest

\* sub in s, for two strings.
Contains(s, sub) ==
    \E i \in 1..(Len(s) - Len(sub) + 1) : SubSeq(s, i, i + Len(sub) - 1) = sub

\* urlparse(url).netloc: what stands between "//" and the next / ? or #.
RECURSIVE UpToDelimiter(_)
UpToDelimiter(s) ==
    IF s = << >> \/ Head(s) \in {"/", "?", "#"} THEN << >>
    ELSE << Head(s) >> \o UpToDelimiter(Tail(s))
netloc(url) ==
    IF Len(url) >= 2 /\ url[2] = "//" THEN UpToDelimiter(SubSeq(url, 3, Len(url)))
    ELSE << >>

youtube_domains == << << "youtube.com" >>, << "youtu.be" >>, << "www.", "youtube.com" >> >>

\* VideoProcessor.validate_youtube_url
validate_youtube_url(url) ==
    \E i \in 1..Len(youtube_domains) : Contains(netloc(url), youtube_domains[i])

\* ([^&\n?#]+) from position i on: the longest run of such characters.
RECURSIVE Group(_, _)
Group(s, i) ==
    IF i > Len(s) \/ s[i] \in {"&", "\n", "?", "#"} THEN << >>
    ELSE << s[i] >> \o Group(s, i + 1)

\* The literal lit stands at position i of s and a non-empty group follows.
LiteralThenGroup(s, i, lit) ==
    /\ i + Len(lit) - 1 <= Len(s)
    /\ SubSeq(s, i, i + Len(lit) - 1) = lit
    /\ Group(s, i + Len(lit)) # << >>

NoVideoId == << >>

\* (?:youtube\.com\/watch\?v=|youtu\.be\/|youtube\.com\/embed\/)([^&\n?#]+)
FirstPatternLiterals ==
    << << "youtube.com", "/", "watch", "?", "v", "=" >>,
       << "youtu.be", "/" >>,
       << "youtube.com", "/", "embed", "/" >> >>
FirstPattern(s) ==
    LET hits == {i \in 1..Len(s) : \E k \in 1..3 :
                    LiteralThenGroup(s, i, FirstPatternLiterals[k])}
    IN  IF hits = {} THEN NoVideoId
        ELSE LET i == CHOOSE x \in hits : \A y \in hits : x <= y
                 k == CHOOSE x \in 1..3 :
                        /\ LiteralThenGroup(s, i, FirstPatternLiterals[x])
                        /\ \A y \in 1..(x - 1) :
                              ~LiteralThenGroup(s, i, FirstPatternLiterals[y])
             IN  Group(s, i + Len(FirstPatternLiterals[k]))

\* youtube\.com\/watch\?.*v=([^&\n?#]+): the leftmost watch?, then the last
\* v= that a group follows.
SecondPattern(s) ==
    LET head == << "youtube.com", "/", "watch", "?" >>
        starts == {i \in 1..Len(s) :
                    /\ i + 3 <= Len(s)
                    /\ SubSeq(s, i, i + 3) = head
                    /\ \E j \in (i + 4)..Len(s) : LiteralThenGroup(s, j, << "v", "=" >>)}
    IN  IF starts = {} THEN NoVideoId
        ELSE LET i == CHOOSE x \in starts : \A y \in starts : x <= y
                 js == {j \in (i + 4)..Len(s) : LiteralThenGroup(s, j, << "v", "=" >>)}
                 j == CHOOSE x \in js : \A y \in js : y <= x
             IN  Group(s, j + 2)

\* VideoProcessor.extract_video_id
extract_video_id(youtube_url) ==
    IF FirstPattern(youtube_url) # NoVideoId THEN FirstPattern(youtube_url)
    ELSE SecondPattern(youtube_url)

Schemes == {"https:", "http:"}
Hosts ==
    {<< "youtube.com" >>, << "www.", "youtube.com" >>, << "m.", "youtube.com" >>,
     << "youtu.be" >>, << "not", "youtube.com" >>, << "example.com" >>}
Rests ==
    {<< "/", "x" >>, << "/", "abc123" >>,
     << "/", "watch", "?", "v", "=", "abc123" >>,
     << "/", "watch", "?", "v", "=", "abc123", "&", "t", "=", "5" >>,
     << "/", "watch", "?", "feature", "=", "share", "&", "v", "=", "abc123" >>,
     << "/", "embed", "/", "abc123" >>}
Urls == {Url(scheme, host, rest) : scheme \in Schemes, host \in Hosts, rest \in Rests}

UrIdle == [pc |-> "idle"]

\* A request to add the video at a URL arrives.
UrlInit ==
    \E url \in Urls \cup {<< >>} :
        ur = [pc |-> "request", url |-> url, code |-> 0, video_id |-> NoVideoId,
              fetches |-> 0, error |-> None]

\* add_video_to_folder: the URL is required and must pass validation; the
\* thread of the video is started for a URL that does.
UrValidate ==
    /\ ur.pc = "request"
    /\ ur' = IF ur.url = << >> \/ ~validate_youtube_url(ur.url)
             THEN [ur EXCEPT !.pc = "rejected", !.code = 400]
             ELSE [ur EXCEPT !.pc = "thread", !.code = 200]
    /\ UNCHANGED <<storeVars, ex, dp, bud, cl, rl, gm, rq>>

\* extract_transcript_details: video_id = self.extract_video_id(url), and
\* the return on no id.
UrExtractId ==
    /\ ur.pc = "thread"
    /\ LET video_id == extract_video_id(ur.url)
       IN  ur' = IF video_id = NoVideoId
                 THEN [ur EXCEPT !.pc = "done", !.error = "Invalid YouTube URL format"]
                 ELSE [ur EXCEPT !.pc = "fetch", !.video_id = video_id]
    /\ UNCHANGED <<storeVars, ex, dp, bud, cl, rl, gm, rq>>

\* ytt_api.fetch(video_id, ...)
UrFetch ==
    /\ ur.pc = "fetch"
    /\ ur' = [ur EXCEPT !.pc = "done", !.fetches = ur.fetches + 1]
    /\ UNCHANGED <<storeVars, ex, dp, bud, cl, rl, gm, rq>>

(***************************************************************************)
(* The session store of one user (user_data[user_id]) and the request      *)
(* handlers.  A handler is one action: Flask runs it to its response.  The *)
(* thread add_video_to_folder starts for a video runs beside the handlers, *)
(* one write of the store at a time.                                       *)
(*                                                                         *)
(* A uuid4() value is the next unused number of its kind.  The transcript  *)
(* of video v is the material TextNames[v].  What the LLM returns for an   *)
(* analysis is a value that records the texts it was given.                *)
(***************************************************************************)
MaxFolders == 2
MaxVideos == 1
MaxDocs == 1
MaxSessions == 2
MaxChats == 1
MaxUpdates == 1
MaxInsights == 2

FolderIds == 1..MaxFolders
VideoIds == 1..MaxVideos
DocIds == 1..MaxDocs
FolderTypes == {"personal", "inspiration"}

\* The ascending sequence of a set of numbers: the iteration order of a dict
\* whose keys were inserted in that order.
RECURSIVE SetToSeq(_)
SetToSeq(S) ==
    IF S = {} THEN << >>
    ELSE LET m == CHOOSE x \in S : \A y \in S : x <= y
         IN  << m >> \o SetToSeq(S \ {m})

Remove(map, k) == [x \in DOMAIN map \ {k} |-> map[x]]

EmptyCache == [analyzed |-> FALSE]

Profile(kind, of) == [kind |-> kind, of |-> of]

LlmOutcomes == {"text", "empty", "raise"}

\* analyze_creator_style, analyze_inspiration_content, analyze_documents:
\* the response text, or the placeholder for an empty response or a failure.
AnalyzeWithRaising(outcome, texts) ==
    Profile(CASE outcome = "text" -> "llm"
              [] outcome = "empty" -> "empty_response"
              [] outcome = "raise" -> "raised", texts)
AnalyzeWith(outcome, texts) ==
    Profile(CASE outcome = "text" -> "llm"
              [] outcome = "empty" -> "empty_response"
              [] outcome = "raise" -> "error", texts)

VideoExists(f, v) == f \in DOMAIN folders /\ v \in DOMAIN folders[f].videos

\* video_data['status'] == 'completed' and video_data.get('transcript')
VideoUsable(video) == video.status = "completed" /\ video.transcript # None

FolderTranscripts(f) ==
    LET vs == SetToSeq(DOMAIN folders[f].videos)
        Usable(v) == VideoUsable(folders[f].videos[v])
        kept == SelectSeq(vs, Usable)
    IN  [i \in 1..Len(kept) |-> folders[f].videos[kept[i]].transcript]

RECURSIVE GatherFolders(_, _)
GatherFolders(fs, personal) ==
    IF fs = << >> THEN << >>
    ELSE (IF (folders[fs[1]].type = "personal") = personal
          THEN FolderTranscripts(fs[1]) ELSE << >>)
         \o GatherFolders(Tail(fs), personal)

personal_transcripts == GatherFolders(SetToSeq(DOMAIN folders), TRUE)
inspiration_transcripts == GatherFolders(SetToSeq(DOMAIN folders), FALSE)

\* doc_data['status'] == 'completed' and doc_data.get('text')
DocUsable(d) == d.status = "completed" /\ d.text # NoText /\ d.text # << >>

document_texts ==
    LET kept == SelectSeq(documents, DocUsable)
    IN  [i \in 1..Len(kept) |-> kept[i].text]

\* if personal_transcripts: / if inspiration_transcripts: / if document_texts:
HasTextsAlways(texts) == TRUE
HasTexts(texts) == texts # << >>

\* The analysis both analyze_content and generate_from_prompt perform; they
\* differ in the canned strings used for a kind without content.
Analysis(os, defaults) ==
    [analyzed |-> TRUE,
     style_profile |->
        IF HasTexts(personal_transcripts)
        THEN AnalyzeWith(os.style, personal_transcripts)
        ELSE Profile(defaults, << >>),
     inspiration_summary |->
        IF HasTexts(inspiration_transcripts)
        THEN AnalyzeWith(os.inspiration, inspiration_transcripts)
        ELSE Profile(defaults, << >>),
     document_insights |->
        IF HasTexts(document_texts)
        THEN AnalyzeWith(os.documents, document_texts)
        ELSE Profile(defaults, << >>),
     stats |-> [personal_videos |-> Len(personal_transcripts),
                inspiration_videos |-> Len(inspiration_transcripts),
                documents |-> Len(document_texts)]]

\* An exception left one of the analyze_* calls.
Raised(analysis) ==
    "raised" \in {analysis.style_profile.kind, analysis.inspiration_summary.kind,
                  analysis.document_insights.kind}

OutcomeChoices == [style : llm.analysis, inspiration : llm.analysis,
                   documents : llm.analysis]

Resp(op, code, cached) == [op |-> op, code |-> code, cached |-> cached]
\* jsonify({'error': result['error']}), code: the response that passes on the
\* error of an extraction.
Rejected(op, code, error) ==
    [op |-> op, code |-> code, cached |-> FALSE, error |-> error]

StoreInit ==
    /\ folders = << >>
    /\ documents = << >>
    /\ analysis_cache = EmptyCache
    /\ current_script = [present |-> FALSE]
    /\ insights_cache = << >>
    /\ chat_sessions = << >>
    /\ threads = << >>
    /\ last = Resp("start", 0, FALSE)

(***************************************************************************)
(* Folders and videos.                                                     *)
(***************************************************************************)
create_folder ==
    /\ \E name \in {"", "name"}, type \in FolderTypes :
        IF name = ""
        THEN /\ last' = Resp("create_folder", 400, FALSE)
             /\ UNCHANGED <<folders, ids>>
        ELSE LET folder_id == ids.folder + 1
             IN  /\ ids.folder < MaxFolders
                 /\ folders' = folders @@ (folder_id :> [type |-> type, videos |-> << >>])
                 /\ ids' = [ids EXCEPT !.folder = folder_id]
                 /\ last' = Resp("create_folder", 200, FALSE)
    /\ UNCHANGED <<documents, analysis_cache, current_script, chat_sessions, threads,
                   llm, insights_cache, ex, dp,
                   bud, cl, rl, ur, gm, rq>>

\* user_data[user_id]['analysis_cache'] = {} of delete_folder
CacheAfterDeleteFolder == EmptyCache

delete_folder ==
    /\ \E folder_id \in FolderIds :
        IF folder_id \in DOMAIN folders
        THEN /\ folders' = Remove(folders, folder_id)
             /\ analysis_cache' = CacheAfterDeleteFolder
             /\ last' = Resp("delete_folder", 200, FALSE)
        ELSE /\ last' = Resp("delete_folder", 404, FALSE)
             /\ UNCHANGED <<folders, analysis_cache>>
    /\ UNCHANGED <<documents, current_script, chat_sessions, threads, ids, llm, insights_cache, ex, dp,
                   bud, cl, rl, ur, gm, rq>>

\* The URLs of the requests: none, one of a site that is not YouTube, a
\* YouTube one, and one whose host ends with the name of YouTube.
VideoUrls ==
    {<< >>,
     Url("https:", << "example.com" >>, << "/", "x" >>),
     Url("https:", << "youtu.be" >>, << "/", "abc123" >>),
     Url("https:", << "not", "youtube.com" >>, << "/", "x" >>)}

\* The entry add_video_to_folder stores for the new video.
NewVideoAlreadyProcessing ==
    [status |-> "processing", transcript |-> None, stats |-> None, error |-> None]
NewVideo == [status |-> "pending", transcript |-> None, stats |-> None, error |-> None]

\* user_data[user_id]['analysis_cache'] = {} of add_video_to_folder
CacheAfterAddVideo == EmptyCache

\* thread = threading.Thread(target=process_video); thread.start()
ThreadNeverStarted(threads_, video_id, folder_id) == threads_
ThreadStarted(threads_, video_id, folder_id) ==
    threads_ @@ (video_id :> [pc |-> "start", folder |-> folder_id])

\* return ..., 400 for the URL comes before the cache is cleared.
CacheClearedBeforeValidation == EmptyCache
CacheAfterRejectedVideo == analysis_cache

add_video_to_folder ==
    /\ \E folder_id \in FolderIds, video_url \in VideoUrls :
        IF folder_id \notin DOMAIN folders
        THEN /\ last' = Resp("add_video_to_folder", 404, FALSE)
             /\ UNCHANGED <<folders, analysis_cache, threads, ids>>
        ELSE IF video_url = << >> \/ ~validate_youtube_url(video_url)
        THEN /\ last' = Resp("add_video_to_folder", 400, FALSE)
             /\ analysis_cache' = CacheAfterRejectedVideo
             /\ UNCHANGED <<folders, threads, ids>>
        ELSE LET video_id == ids.video + 1
             IN  /\ ids.video < MaxVideos
                 /\ folders' = [folders EXCEPT ![folder_id].videos =
                                    @ @@ (video_id :> NewVideo)]
                 /\ analysis_cache' = CacheAfterAddVideo
                 /\ threads' = ThreadStarted(threads, video_id, folder_id)
                 /\ ids' = [ids EXCEPT !.video = video_id]
                 /\ last' = Resp("add_video_to_folder", 200, FALSE)
    /\ UNCHANGED <<documents, current_script, chat_sessions, llm, insights_cache, ex, dp,
                   bud, cl, rl, ur, gm, rq>>

\* user_data[user_id]['analysis_cache'] = {} of delete_video_from_folder
CacheKept == analysis_cache
CacheAfterDeleteVideo == EmptyCache

delete_video_from_folder ==
    /\ \E folder_id \in FolderIds, video_id \in VideoIds :
        IF folder_id \notin DOMAIN folders
        THEN /\ last' = Resp("delete_video_from_folder", 404, FALSE)
             /\ UNCHANGED <<folders, analysis_cache>>
        ELSE IF video_id \in DOMAIN folders[folder_id].videos
        THEN /\ folders' = [folders EXCEPT ![folder_id].videos = Remove(@, video_id)]
             /\ analysis_cache' = CacheAfterDeleteVideo
             /\ last' = Resp("delete_video_from_folder", 200, FALSE)
        ELSE /\ last' = Resp("delete_video_from_folder", 404, FALSE)
             /\ UNCHANGED <<folders, analysis_cache>>
    /\ UNCHANGED <<documents, current_script, chat_sessions, threads, ids, llm, insights_cache, ex, dp,
                   bud, cl, rl, ur, gm, rq>>

(***************************************************************************)
(* process_video, the thread of one video.  Each step is one write of the  *)
(* store (or the extraction, which touches none of it).  A write to an     *)
(* entry that was deleted raises KeyError; the handler of the exception    *)
(* writes the same entry.                                                  *)
(***************************************************************************)
SetVideo(f, v, field, value) ==
    [folders EXCEPT ![f].videos[v] = [@ EXCEPT ![field] = value]]

\* A write of the thread to folders[f]['videos'][v][...] raises.
RaisesOnceCompleted(f, v) ==
    ~VideoExists(f, v) \/ folders[f].videos[v].status = "completed"
WriteRaises(f, v) == ~VideoExists(f, v)

\* folders[folder_id]['videos'][video_id]['status'] = 'error' on a folder or
\* a video that is gone: folders and videos are plain dicts, the subscript
\* raises KeyError and nothing is stored.
FoldersWithEntryMadeAgain(f, v) ==
    LET entry == [NewVideo EXCEPT !.status = "error", !.error = "exception"]
    IN  IF f \in DOMAIN folders
        THEN [folders EXCEPT ![f].videos = (v :> entry) @@ @]
        ELSE (f :> [type |-> "personal", videos |-> (v :> entry)]) @@ folders
FoldersAfterKeyError(f, v) == folders

\* except Exception as e: status = 'error', error = str(e); when that write
\* raises too the thread ends with the entry as it is.
PvHandler(v) ==
    LET f == threads[v].folder
    IN  IF VideoExists(f, v)
        THEN /\ folders' = [folders EXCEPT ![f].videos[v] =
                                [@ EXCEPT !.status = "error", !.error = "exception"]]
             /\ threads' = Remove(threads, v)
        ELSE /\ threads' = Remove(threads, v)
             /\ folders' = FoldersAfterKeyError(f, v)

PvLast == Resp("process_video", 0, FALSE)

\* status = 'processing' and the title
PvStart ==
    /\ \E v \in DOMAIN threads :
        /\ threads[v].pc = "start"
        /\ IF WriteRaises(threads[v].folder, v)
           THEN PvHandler(v)
           ELSE /\ folders' = SetVideo(threads[v].folder, v, "status", "processing")
                /\ threads' = [threads EXCEPT ![v].pc = "extract"]
    /\ last' = PvLast
    /\ UNCHANGED <<documents, analysis_cache, current_script, chat_sessions, ids,
                   llm, insights_cache, ex, dp,
                   bud, cl, rl, ur, gm, rq>>

\* result = video_processor.extract_transcript_details(video_url), and the
\* write that follows it: status = 'error' and the message when the result
\* holds an error, else status = 'completed'.  The extraction itself reads
\* and writes nothing of the store, so it is placed at the time of that write.
PvExtract ==
    /\ \E v \in DOMAIN threads, result \in {ExSucceeded, ExFailed("error")} :
        LET f == threads[v].folder
        IN  /\ threads[v].pc = "extract"
            /\ IF WriteRaises(f, v)
               THEN PvHandler(v)
               ELSE IF result.error # None
               THEN /\ folders' = [folders EXCEPT ![f].videos[v] =
                                    [@ EXCEPT !.status = "error", !.error = result.error]]
                    /\ threads' = Remove(threads, v)
               ELSE /\ folders' = SetVideo(f, v, "status", "completed")
                    /\ threads' = [threads EXCEPT ![v].pc = "store_payload"]
    /\ last' = PvLast
    /\ UNCHANGED <<documents, analysis_cache, current_script, chat_sessions, ids,
                   llm, insights_cache, ex, dp,
                   bud, cl, rl, ur, gm, rq>>

\* ['transcript'] = result['transcript'] and ['stats'] = result['stats']
PvStorePayload ==
    /\ \E v \in DOMAIN threads :
        LET f == threads[v].folder
        IN  /\ threads[v].pc = "store_payload"
            /\ IF WriteRaises(f, v)
               THEN PvHandler(v)
               ELSE /\ folders' = [folders EXCEPT ![f].videos[v] =
                                    [@ EXCEPT !.transcript = TextNames[v], !.stats = "stats"]]
                    /\ threads' = Remove(threads, v)
    /\ last' = PvLast
    /\ UNCHANGED <<documents, analysis_cache, current_script, chat_sessions, ids,
                   llm, insights_cache, ex, dp,
                   bud, cl, rl, ur, gm, rq>>

(***************************************************************************)
(* Documents.  user_data[user]['documents'] is a dict whose keys the       *)
(* client chooses (file_id): the sequence of its entries in insertion      *)
(* order.                                                                  *)
(***************************************************************************)
TextFile(text) == [ext |-> "txt", first |-> Extracted(text, FALSE), second |-> NoSecond]

\* The files uploaded: a text of 60 characters, a text of 40 characters, and
\* a file of a type that is not allowed.
UploadFiles ==
    {TextFile(DocText(0, 60, 0)), TextFile(DocText(0, 40, 0)),
     [ext |-> "exe", first |-> Extracted(DocText(0, 60, 0), FALSE), second |-> NoSecond]}

allowed_file(file) == file.ext \in ALLOWED_EXTENSIONS

DocIndex(file_id) ==
    IF \E i \in 1..Len(documents) : documents[i].id = file_id
    THEN CHOOSE i \in 1..Len(documents) : documents[i].id = file_id
    ELSE 0

\* documents[file_id] = entry
PutDocument(file_id, entry) ==
    IF DocIndex(file_id) = 0
    THEN Append(documents, entry)
    ELSE [documents EXCEPT ![DocIndex(file_id)] = entry]

\* del documents[file_id]
DelDocument(file_id) ==
    LET Other(d) == d.id # file_id
    IN  SelectSeq(documents, Other)

\* user_data[user_id]['analysis_cache'] = {} of upload_document
CacheAfterUpload == EmptyCache

\* if result['error']: return ..., 400 comes before the cache is cleared.
CacheClearedBeforeCheck == EmptyCache
CacheAfterRejectedUpload == analysis_cache

upload_document ==
    /\ \E request \in {"no_file", "no_filename", "file"} :
        IF request # "file"
        THEN /\ last' = Resp("upload_document", 400, FALSE)
             /\ UNCHANGED <<documents, analysis_cache>>
        ELSE \E file_id \in DocIds, file \in UploadFiles :
             LET result == process_document(file)
             IN  IF ~allowed_file(file)
                 THEN /\ last' = Resp("upload_document", 400, FALSE)
                      /\ UNCHANGED <<documents, analysis_cache>>
                 ELSE IF result.error # None
                 THEN /\ last' = Rejected("upload_document", 400, result.error)
                      /\ analysis_cache' = CacheAfterRejectedUpload
                      /\ UNCHANGED documents
                 ELSE /\ documents' = PutDocument(file_id,
                             [id |-> file_id, text |-> result.text, status |-> "completed"])
                      /\ analysis_cache' = CacheAfterUpload
                      /\ last' = Resp("upload_document", 200, FALSE)
    /\ UNCHANGED <<folders, current_script, chat_sessions, threads, ids, llm, insights_cache, ex, dp,
                   bud, cl, rl, ur, gm, rq>>

\* user_data[user_id]['analysis_cache'] = {} of delete_document
CacheAfterDeleteDocument == EmptyCache

delete_document ==
    /\ \E file_id \in DocIds :
        IF DocIndex(file_id) # 0
        THEN /\ documents' = DelDocument(file_id)
             /\ analysis_cache' = CacheAfterDeleteDocument
             /\ last' = Resp("delete_document", 200, FALSE)
        ELSE /\ last' = Resp("delete_document", 404, FALSE)
             /\ UNCHANGED <<documents, analysis_cache>>
    /\ UNCHANGED <<folders, current_script, chat_sessions, threads, ids, llm, insights_cache, ex, dp,
                   bud, cl, rl, ur, gm, rq>>

(***************************************************************************)
(* Analysis, generation and status.                                        *)
(***************************************************************************)
analyze_content ==
    /\ IF analysis_cache.analyzed
       THEN /\ last' = Resp("analyze_content", 200, TRUE)
            /\ UNCHANGED analysis_cache
       ELSE \E os \in OutcomeChoices :
            IF Raised(Analysis(os, "default_analyze"))
            THEN /\ last' = Resp("analyze_content", 500, FALSE)
                 /\ UNCHANGED analysis_cache
            ELSE /\ analysis_cache' = Analysis(os, "default_analyze")
                 /\ last' = Resp("analyze_content", 200, FALSE)
    /\ UNCHANGED <<folders, documents, current_script, chat_sessions, threads, ids,
                   llm, insights_cache, ex, dp,
                   bud, cl, rl, ur, gm, rq>>

ScriptNames == << "script1", "script2", "script3", "script4" >>
EditNames == << "edit1", "edit2", "edit3", "edit4" >>

\* generate_enhanced_script: the response text, or the string describing an
\* empty response or a failure; serial tells one response from another.
generate_enhanced_script(outcome, serial) ==
    CASE outcome = "text" -> << Seg(ScriptNames[serial], 0, 100) >>
      [] outcome = "empty" -> Lit("Error: Could not generate script - empty response", 49)
      [] outcome = "raise" -> Concat(Lit("Error generating script: ", 25), Lit("str(e)", 10))

\* datetime.now().isoformat() read by the n-th accepted request of handler by.
Timestamp(by, n) == [by |-> by, n |-> n]

\* chat_sessions[chat_session_id] = {'messages': [], 'script_versions': [script]}
NewChatSessionWithoutVersion(script) == [messages |-> << >>, script_versions |-> << >>]
NewChatSession(script) == [messages |-> << >>, script_versions |-> << script >>]

\* user_data[user_id]['chat_sessions'][chat_session_id] = {...}
OpenChatSessionAlone(sessions, chat_session_id, chat_session) ==
    chat_session_id :> chat_session
OpenChatSession(sessions, chat_session_id, chat_session) ==
    sessions @@ (chat_session_id :> chat_session)

Prompts == {"", "prompt"}

\* stats = analysis_cache.get('stats', {}), on the dict read at the start of
\* the request; {} is the empty function.
StatsOf(cache) == IF "stats" \in DOMAIN cache THEN cache.stats ELSE << >>
\* stats.get('documents', 0) > 0
has_documents(stats) == "documents" \in DOMAIN stats /\ stats.documents > 0
\* bool(inspiration_summary and inspiration_summary != "Creating original
\* content based on user request and best practices.")
has_topic_insights(inspiration_summary) == inspiration_summary.kind # "default_generate"

\* The 200 response of generate_from_prompt.
Generated(cached, stats, inspiration_summary) ==
    [op |-> "generate_from_prompt", code |-> 200, cached |-> cached,
     stats |-> stats,
     generation_type |-> IF has_documents(stats) THEN "enhanced_with_documents"
                                                 ELSE "analyzed",
     has_topic_insights |-> has_topic_insights(inspiration_summary),
     has_documents |-> has_documents(stats)]

\* generate_from_prompt from the cache write on: used holds the profiles,
\* read is the analysis_cache dict the request read at its start.
GenerateScript(used, read, user_prompt, outcome) ==
    LET chat_session_id == ids.session + 1
        script == generate_enhanced_script(outcome, chat_session_id)
    IN  /\ ids.session < MaxSessions
        /\ analysis_cache' = IF read.analyzed THEN analysis_cache ELSE used
        /\ current_script' =
               [present |-> TRUE, content |-> script,
                style_profile |-> used.style_profile,
                topic_insights |-> used.inspiration_summary,
                document_insights |-> used.document_insights,
                original_prompt |-> user_prompt,
                timestamp |-> Timestamp("generate_from_prompt", chat_session_id)]
        /\ chat_sessions' = OpenChatSession(chat_sessions, chat_session_id,
                                            NewChatSession(script))
        /\ ids' = [ids EXCEPT !.session = chat_session_id]
        /\ last' = Generated(read.analyzed, StatsOf(read), used.inspiration_summary)

generate_from_prompt ==
    /\ \E user_prompt \in Prompts :
        IF user_prompt = ""
        THEN /\ last' = Resp("generate_from_prompt", 400, FALSE)
             /\ UNCHANGED <<analysis_cache, current_script, chat_sessions, ids>>
        ELSE \E os \in OutcomeChoices, outcome \in llm.script :
             LET used == IF analysis_cache.analyzed
                         THEN analysis_cache
                         ELSE Analysis(os, "default_generate")
             IN  IF Raised(used)
                 THEN /\ last' = Resp("generate_from_prompt", 500, FALSE)
                      /\ UNCHANGED <<analysis_cache, current_script, chat_sessions, ids>>
                 ELSE GenerateScript(used, analysis_cache, user_prompt, outcome)
    /\ UNCHANGED <<folders, documents, threads, llm, insights_cache, ex, dp,
                   bud, cl, rl, ur, gm, rq>>

\* modify_script_chat: the response text, or the string describing an empty
\* response or a failure.
modify_script_chat(outcome) ==
    CASE outcome = "text" -> "modification"
      [] outcome = "empty" -> "Could not modify script - empty response"
      [] outcome = "raise" -> "Error modifying script: str(e)"

\* The chat_session_id of a request body: 0 when it is absent, else an id,
\* known or not.
SessionArgs == 0..(MaxSessions + 1)

\* chat_session['messages'].append({...})
AppendMessageAndVersion(chat_session, record) ==
    [chat_session EXCEPT !.messages = Append(@, record),
                         !.script_versions = Append(@, << >>)]
AppendMessage(chat_session, record) ==
    [chat_session EXCEPT !.messages = Append(@, record)]

chat_modify_script ==
    /\ \E user_message \in {"", "message"}, chat_session_id \in SessionArgs :
        IF user_message = ""
        THEN /\ last' = Resp("chat_modify_script", 400, FALSE)
             /\ UNCHANGED <<chat_sessions, ids>>
        ELSE IF ~current_script.present
        THEN /\ last' = Resp("chat_modify_script", 400, FALSE)
             /\ UNCHANGED <<chat_sessions, ids>>
        ELSE \E outcome \in llm.script :
             LET modification_response == modify_script_chat(outcome)
                 n == ids.message + 1
             IN  /\ ids.message < MaxChats
                 /\ chat_sessions' =
                        IF chat_session_id # 0 /\ chat_session_id \in DOMAIN chat_sessions
                        THEN [chat_sessions EXCEPT ![chat_session_id] =
                                AppendMessage(@,
                                    [user_message |-> user_message,
                                     ai_response |-> modification_response,
                                     timestamp |-> Timestamp("chat_modify_script", n)])]
                        ELSE chat_sessions
                 /\ ids' = [ids EXCEPT !.message = n]
                 /\ last' = Resp("chat_modify_script", 200, FALSE)
    /\ UNCHANGED <<folders, documents, analysis_cache, current_script, threads,
                   llm, insights_cache, ex, dp,
                   bud, cl, rl, ur, gm, rq>>

\* The script texts a client submits to update_script: nothing, whitespace
\* alone, an edited text, and the edited text between a leading and a
\* trailing newline.
SubmittedScripts(n) ==
    {<< >>, Newlines(2), Lit(EditNames[n], 80),
     Concat(Concat(Newlines(1), Lit(EditNames[n], 80)), Newlines(1))}

\* chat_session['script_versions'].append(new_script)
AppendVersionDropMessages(chat_session, new_script) ==
    [chat_session EXCEPT !.script_versions = Append(@, new_script),
                         !.messages = << >>]
AppendVersion(chat_session, new_script) ==
    [chat_session EXCEPT !.script_versions = Append(@, new_script)]

update_script ==
    /\ \E submitted \in SubmittedScripts(Min(ids.update + 1, Len(EditNames))),
          chat_session_id \in SessionArgs :
        LET new_script == Strip(submitted)
            n == ids.update + 1
        IN  IF new_script = << >>
            THEN /\ last' = Resp("update_script", 400, FALSE)
                 /\ UNCHANGED <<current_script, chat_sessions, ids>>
            ELSE /\ ids.update < MaxUpdates
                 /\ current_script' =
                        IF current_script.present
                        THEN [current_script EXCEPT
                                !.content = new_script,
                                !.timestamp = Timestamp("update_script", n)]
                        ELSE current_script
                 /\ chat_sessions' =
                        IF chat_session_id # 0 /\ chat_session_id \in DOMAIN chat_sessions
                        THEN [chat_sessions EXCEPT ![chat_session_id] =
                                AppendVersion(@, new_script)]
                        ELSE chat_sessions
                 /\ ids' = [ids EXCEPT !.update = n]
                 /\ last' = [op |-> "update_script", code |-> 200, cached |-> FALSE,
                             submitted |-> submitted]
    /\ UNCHANGED <<folders, documents, analysis_cache, threads, llm, insights_cache, ex, dp,
                   bud, cl, rl, ur, gm, rq>>

\* The topic of a request after strip().
Topics == {"", "a", "b"}

\* The inspiration transcripts alone, as get_topic_insights gathers them.
topic_transcripts == inspiration_transcripts

\* insights_cache[topic_query] = {...}
CacheInsightsAlone(cache, topic_query, entry) == topic_query :> entry
CacheInsights(cache, topic_query, entry) == (topic_query :> entry) @@ cache

get_topic_insights ==
    /\ \E topic_query \in Topics :
        IF topic_query = ""
        THEN /\ last' = Resp("get_topic_insights", 400, FALSE)
             /\ UNCHANGED <<insights_cache, ids>>
        ELSE IF topic_transcripts = << >> /\ document_texts = << >>
        THEN /\ last' = Resp("get_topic_insights", 400, FALSE)
             /\ UNCHANGED <<insights_cache, ids>>
        ELSE \E outcome \in llm.analysis :
             IF outcome = "text"
             THEN LET n == ids.topic + 1
                  IN  /\ ids.topic < MaxInsights
                      /\ insights_cache' = CacheInsights(insights_cache, topic_query,
                            [insights |-> "insights",
                             source_count |-> [videos |-> Len(topic_transcripts),
                                               documents |-> Len(document_texts)],
                             timestamp |-> Timestamp("get_topic_insights", n)])
                      /\ ids' = [ids EXCEPT !.topic = n]
                      /\ last' = Resp("get_topic_insights", 200, FALSE)
             ELSE /\ last' = Resp("get_topic_insights", 500, FALSE)
                  /\ UNCHANGED <<insights_cache, ids>>
    /\ UNCHANGED <<folders, documents, analysis_cache, current_script, chat_sessions,
                   threads, llm, ex, dp,
                   bud, cl, rl, ur, gm, rq>>

clear_cache ==
    /\ analysis_cache' = EmptyCache
    /\ insights_cache' = << >>
    /\ last' = Resp("clear_cache", 200, FALSE)
    /\ UNCHANGED <<folders, documents, current_script, chat_sessions, threads, ids,
                   llm, ex, dp,
                   bud, cl, rl, ur, gm, rq>>

(***************************************************************************)
(* The clients of the server.  A client is a cookie jar: the session of a  *)
(* request is what the cookie of its client holds.  user_data maps a user  *)
(* key to the bucket of that key; a bucket is reduced here to the ids of   *)
(* its folders and of its documents.                                       *)
(***************************************************************************)
MaxClients == 2
MaxClientFolders == 2

Clients == 1..MaxClients
ClIdle == [pc |-> "idle"]

\* A session without the key 'user_id'.
NoUserId == "<absent>"

\* user_id = session.get('user_id', 'default_user')
UserIdOf(session) == IF session = NoUserId THEN "default_user" ELSE session

\* if 'user_id' not in session: session['user_id'] = user_id
RememberUserId(session) == IF session = NoUserId THEN UserIdOf(session) ELSE session

\* user_data = defaultdict(lambda: {...}): reading the bucket of a key that
\* has none makes an empty one.
NewBucket == [folders |-> {}, documents |-> {}]
BucketOf(user_data, user_id) ==
    IF user_id \in DOMAIN user_data THEN user_data[user_id] ELSE NewBucket
Touch(user_data, user_id) ==
    IF user_id \in DOMAIN user_data THEN user_data
    ELSE (user_id :> NewBucket) @@ user_data

\* What a read by client c returns in the state m of the clients.
ObservationIn(m, c) == BucketOf(m.user_data, UserIdOf(m.cookie[c]))

ClientsInit ==
    cl = [cookie |-> [c \in Clients |-> NoUserId], user_data |-> << >>,
          folder_ids |-> 0, actor |-> 0, code |-> 0, response |-> NewBucket]

\* The request of client c is answered: its cookie and user_data are as the
\* handler left them.
Served(c, session, user_data, folder_ids, code, response) ==
    cl' = [cookie |-> [cl.cookie EXCEPT ![c] = session], user_data |-> user_data,
           folder_ids |-> folder_ids, actor |-> c, code |-> code,
           response |-> response]

get_folders_by(c) ==
    LET user_id == UserIdOf(cl.cookie[c])
        user_data == Touch(cl.user_data, user_id)
    IN  /\ Served(c, cl.cookie[c], user_data, cl.folder_ids, 200, user_data[user_id])
        /\ UNCHANGED <<storeVars, ex, dp, bud, rl, ur, gm, rq>>

create_folder_by(c) ==
    /\ cl.folder_ids < MaxClientFolders
    /\ \E named \in BOOLEAN :
        LET user_id == UserIdOf(cl.cookie[c])
            session == RememberUserId(cl.cookie[c])
            folder_id == cl.folder_ids + 1
            bucket == BucketOf(cl.user_data, user_id)
        IN  IF ~named
            THEN Served(c, session, cl.user_data, cl.folder_ids, 400, NewBucket)
            ELSE Served(c, session,
                        (user_id :> [bucket EXCEPT !.folders = @ \cup {folder_id}])
                            @@ cl.user_data,
                        folder_id, 200, NewBucket)
    /\ UNCHANGED <<storeVars, ex, dp, bud, rl, ur, gm, rq>>

delete_folder_by(c) ==
    /\ \E folder_id \in 1..MaxClientFolders :
        LET user_id == UserIdOf(cl.cookie[c])
            user_data == Touch(cl.user_data, user_id)
        IN  IF folder_id \in user_data[user_id].folders
            THEN Served(c, cl.cookie[c],
                        [user_data EXCEPT ![user_id].folders = @ \ {folder_id}],
                        cl.folder_ids, 200, NewBucket)
            ELSE Served(c, cl.cookie[c], user_data, cl.folder_ids, 404, NewBucket)
    /\ UNCHANGED <<storeVars, ex, dp, bud, rl, ur, gm, rq>>

upload_document_by(c) ==
    /\ \E file_id \in DocIds, accepted \in BOOLEAN :
        LET user_id == UserIdOf(cl.cookie[c])
            session == RememberUserId(cl.cookie[c])
            bucket == BucketOf(cl.user_data, user_id)
        IN  IF ~accepted
            THEN Served(c, session, cl.user_data, cl.folder_ids, 400, NewBucket)
            ELSE Served(c, session,
                        (user_id :> [bucket EXCEPT !.documents = @ \cup {file_id}])
                            @@ cl.user_data,
                        cl.folder_ids, 200, NewBucket)
    /\ UNCHANGED <<storeVars, ex, dp, bud, rl, ur, gm, rq>>


AllVideos == UNION {{<<f, v>> : v \in DOMAIN folders[f].videos} : f \in DOMAIN folders}

CountVideos(personal, status) ==
    Cardinality({x \in AllVideos :
        /\ folders[x[1]].videos[x[2]].status = status
        /\ (folders[x[1]].type = "personal") = personal})

CompletedDocuments ==
    Cardinality({i \in 1..Len(documents) : documents[i].status = "completed"})

\* has_any_content of get_status
HasAnyContentVideosOnly(personal_completed, inspiration_completed, completed_documents) ==
    personal_completed > 0 \/ inspiration_completed > 0
HasAnyContent(personal_completed, inspiration_completed, completed_documents) ==
    personal_completed > 0 \/ inspiration_completed > 0 \/ completed_documents > 0

\* The analysis quality assessment of get_status.
AnalysisQualityDocumentsFirst(personal_completed, inspiration_completed, completed_documents) ==
    IF completed_documents > 0
    THEN "optimal"
    ELSE IF personal_completed > 0 /\ inspiration_completed > 0
    THEN "premium"
    ELSE IF personal_completed > 0 \/ inspiration_completed > 0
    THEN "good"
    ELSE "basic"
analysis_quality(personal_completed, inspiration_completed, completed_documents) ==
    IF personal_completed > 0 /\ inspiration_completed > 0 /\ completed_documents > 0
    THEN "premium"
    ELSE IF (personal_completed > 0 /\ inspiration_completed > 0)
            \/ completed_documents > 0
    THEN "optimal"
    ELSE IF personal_completed > 0 \/ inspiration_completed > 0
    THEN "good"
    ELSE "basic"

\* The status_info get_status returns.
get_status ==
    LET personal_completed == CountVideos(TRUE, "completed")
        inspiration_completed == CountVideos(FALSE, "completed")
        completed_documents == CompletedDocuments
        has_any_content ==
            HasAnyContent(personal_completed, inspiration_completed, completed_documents)
    IN  [total_folders |-> Cardinality(DOMAIN folders),
         total_videos |-> Cardinality(AllVideos),
         completed_videos |-> personal_completed + inspiration_completed,
         processing_videos |-> CountVideos(TRUE, "processing") + CountVideos(FALSE, "processing"),
         error_videos |-> CountVideos(TRUE, "error") + CountVideos(FALSE, "error"),
         total_documents |-> Len(documents),
         completed_documents |-> completed_documents,
         has_personal_videos |-> personal_completed > 0,
         has_inspiration_videos |-> inspiration_completed > 0,
         has_documents |-> completed_documents > 0,
         ready_for_analysis |-> has_any_content,
         can_generate_script |-> has_any_content,
         analysis_quality |->
            analysis_quality(personal_completed, inspiration_completed,
                             completed_documents)]

(***************************************************************************)
(* The specifications.                                                     *)
(***************************************************************************)
\* No uuid has been drawn yet.
FreshIds == [folder |-> 0, video |-> 0, session |-> 0, message |-> 0, update |-> 0,
             topic |-> 0]

\* An LLM service that answers every call with a text.
Reliable == [analysis |-> {"text"}, script |-> {"text"}]

Init ==
    /\ StoreInit /\ ids = FreshIds /\ llm = Reliable
    /\ ex = ExIdle /\ dp = DpIdle /\ bud = BudIdle /\ cl = ClIdle /\ rl = RlIdle /\ ur = UrIdle /\ gm = GmIdle /\ rq = RqIdle

\* The requests on the sources and the steps of the threads.
Next ==
    \/ create_folder
    \/ delete_folder
    \/ add_video_to_folder
    \/ delete_video_from_folder
    \/ PvStart
    \/ PvExtract
    \/ PvStorePayload
    \/ upload_document
    \/ delete_document
    \/ analyze_content

Spec == Init /\ [][Next]_vars

\* The documents, script generation and editing, with an LLM service that
\* may answer a script or chat call with nothing or fail.
InitScript ==
    /\ StoreInit
    /\ ids = FreshIds
    /\ llm = [analysis |-> {"text"}, script |-> LlmOutcomes]
    /\ ex = ExIdle /\ dp = DpIdle /\ bud = BudIdle /\ cl = ClIdle /\ rl = RlIdle /\ ur = UrIdle /\ gm = GmIdle /\ rq = RqIdle
NextScript ==
    \/ upload_document
    \/ delete_document
    \/ analyze_content
    \/ generate_from_prompt
    \/ chat_modify_script
    \/ update_script
    \/ clear_cache
SpecScript == InitScript /\ [][NextScript]_vars

\* The requests on the sources with the analysis and one script generation,
\* with an LLM service that may answer an analysis call with nothing or fail,
\* in a session that can still draw one folder id, one video id and one
\* chat session id.
InitAnalysis ==
    /\ StoreInit
    /\ ids = [FreshIds EXCEPT !.folder = MaxFolders - 1, !.video = MaxVideos - 1,
                              !.session = MaxSessions - 1]
    /\ llm = [analysis |-> LlmOutcomes, script |-> {"text"}]
    /\ ex = ExIdle /\ dp = DpIdle /\ bud = BudIdle /\ cl = ClIdle /\ rl = RlIdle /\ ur = UrIdle /\ gm = GmIdle /\ rq = RqIdle
NextAnalysis == Next \/ generate_from_prompt
SpecAnalysis == InitAnalysis /\ [][NextAnalysis]_vars

\* The requests on the sources with the topic insights and the clearing of
\* the caches, under the same LLM service and with the same ids left.
InitCache == InitAnalysis
NextCache == Next \/ get_topic_insights \/ clear_cache
SpecCache == InitCache /\ [][NextCache]_vars

\* Two clients, each with its own cookie jar, that read, create and delete
\* folders and upload documents.
InitClients ==
    /\ StoreInit /\ ids = FreshIds /\ llm = Reliable
    /\ ex = ExIdle /\ dp = DpIdle /\ bud = BudIdle /\ ClientsInit
    /\ rl = RlIdle /\ ur = UrIdle /\ gm = GmIdle /\ rq = RqIdle
NextClients ==
    \E c \in Clients :
        \/ get_folders_by(c)
        \/ create_folder_by(c)
        \/ delete_folder_by(c)
        \/ upload_document_by(c)
SpecClients == InitClients /\ [][NextClients]_vars

\* Two threads that call extract_transcript_details on the shared
\* video_processor, each up to MaxCalls times, while the clock advances.
InitRate ==
    /\ StoreInit /\ ids = FreshIds /\ llm = Reliable
    /\ ex = ExIdle /\ dp = DpIdle /\ bud = BudIdle /\ cl = ClIdle
    /\ RateInit /\ ur = UrIdle /\ gm = GmIdle /\ rq = RqIdle
NextRate ==
    \/ RlTick
    \/ RlCheck
    \/ RlWake
    \/ RlRecord
    \/ RlDirectFetch
    \/ RlFetchSelected
    \/ RlRetryWake
SpecRate == InitRate /\ [][NextRate]_vars

\* A store that holds a personal and an inspiration folder, each with no
\* video or with one video in any of its states (a pending or processing
\* video has its thread), and that has drawn all its folder and video ids;
\* the threads run on and documents are uploaded and deleted.
StatusStates == {"none", "pending", "processing", "completed", "error"}
StatusVideos(v, state) ==
    CASE state = "none" -> << >>
      [] state = "pending" -> (v :> NewVideo)
      [] state = "processing" -> (v :> [NewVideo EXCEPT !.status = "processing"])
      [] state = "completed" ->
            (v :> [NewVideo EXCEPT !.status = "completed",
                                   !.transcript = TextNames[v], !.stats = "stats"])
      [] state = "error" ->
            (v :> [NewVideo EXCEPT !.status = "error", !.error = "error"])
StatusThreads(f, v, state) ==
    CASE state = "pending" -> (v :> [pc |-> "start", folder |-> f])
      [] state = "processing" -> (v :> [pc |-> "extract", folder |-> f])
      [] OTHER -> << >>
InitStatus ==
    /\ \E personal \in StatusStates, inspiration \in StatusStates :
        /\ folders = (1 :> [type |-> "personal", videos |-> StatusVideos(1, personal)])
                      @@ (2 :> [type |-> "inspiration",
                                videos |-> StatusVideos(2, inspiration)])
        /\ threads = StatusThreads(1, 1, personal) @@ StatusThreads(2, 2, inspiration)
    /\ documents = << >>
    /\ analysis_cache = EmptyCache
    /\ current_script = [present |-> FALSE]
    /\ insights_cache = << >>
    /\ chat_sessions = << >>
    /\ last = Resp("start", 0, FALSE)
    /\ ids = [FreshIds EXCEPT !.folder = 2, !.video = 2]
    /\ llm = Reliable
    /\ ex = ExIdle /\ dp = DpIdle /\ bud = BudIdle /\ cl = ClIdle /\ rl = RlIdle /\ ur = UrIdle /\ gm = GmIdle /\ rq = RqIdle
NextStatus ==
    \/ PvStart
    \/ PvExtract
    \/ PvStorePayload
    \/ delete_folder
    \/ upload_document
    \/ delete_document
SpecStatus == InitStatus /\ [][NextStatus]_vars

\* One URL from the request that adds it to the fetch of its transcript.
InitUrl ==
    /\ StoreInit /\ ids = FreshIds /\ llm = Reliable
    /\ ex = ExIdle /\ dp = DpIdle /\ bud = BudIdle /\ cl = ClIdle /\ rl = RlIdle
    /\ UrlInit /\ gm = GmIdle /\ rq = RqIdle
NextUrl == UrValidate \/ UrExtractId \/ UrFetch
SpecUrl == InitUrl /\ [][NextUrl]_vars

InitExtract == StoreInit /\ ids = FreshIds /\ llm = Reliable /\ ExtractInit /\ dp = DpIdle /\ bud = BudIdle
               /\ cl = ClIdle /\ rl = RlIdle /\ ur = UrIdle /\ gm = GmIdle /\ rq = RqIdle
NextExtract == ExBegin \/ ExDirectFetch \/ ExList \/ ExFetchSelected
SpecExtract == InitExtract /\ [][NextExtract]_vars

InitDoc == StoreInit /\ ids = FreshIds /\ llm = Reliable /\ ex = ExIdle /\ DocInit /\ bud = BudIdle
           /\ cl = ClIdle /\ rl = RlIdle /\ ur = UrIdle /\ gm = GmIdle /\ rq = RqIdle
NextDoc == DocProcess
SpecDoc == InitDoc /\ [][NextDoc]_vars

InitBudget == StoreInit /\ ids = FreshIds /\ llm = Reliable /\ ex = ExIdle /\ dp = DpIdle /\ BudgetInit
              /\ cl = ClIdle /\ rl = RlIdle /\ ur = UrIdle /\ gm = GmIdle /\ rq = RqIdle
NextBudget == BudgetApply
SpecBudget == InitBudget /\ [][NextBudget]_vars


(***************************************************************************)
(* The properties.                                                         *)
(***************************************************************************)

\* C1: after a successful upload_document, delete_document,
\* add_video_to_folder, delete_video_from_folder or delete_folder the
\* analysis_cache is empty, and an analyze_content that comes directly after
\* it does not answer from the cache: it computes the three profiles from the
\* transcripts and document texts the store holds at that moment.
C1_MutationEmptiesCache ==
    [][/\ (/\ last'.op \in {"upload_document", "delete_document", "add_video_to_folder",
                            "delete_video_from_folder", "delete_folder"}
           /\ last'.code = 200)
          => analysis_cache' = EmptyCache
       /\ (/\ last.op \in {"upload_document", "delete_document", "add_video_to_folder",
                           "delete_video_from_folder", "delete_folder"}
           /\ last.code = 200
           /\ last'.op = "analyze_content")
          => /\ ~last'.cached
             /\ analysis_cache'.analyzed
             /\ analysis_cache'.style_profile.of = personal_transcripts
             /\ analysis_cache'.inspiration_summary.of = inspiration_transcripts
             /\ analysis_cache'.document_insights.of = document_texts]_vars

\* A video was deleted from a folder while the store holds a document, whose
\* analysis may have been cached: the cache is empty.
C1_Witness ==
    /\ last.op = "delete_video_from_folder"
    /\ last.code = 200
    /\ documents # << >>
    /\ analysis_cache = EmptyCache

\* C2: analyze_content answers from the cache only when the cached profiles
\* were computed from the transcripts and document texts the store holds now.
C2_CachedProfilesAreCurrent ==
    (last.op = "analyze_content" /\ last.code = 200 /\ last.cached)
    => /\ analysis_cache.style_profile.of = personal_transcripts
       /\ analysis_cache.inspiration_summary.of = inspiration_transcripts
       /\ analysis_cache.document_insights.of = document_texts

\* C3: get_status gives ready_for_analysis and can_generate_script as true
\* exactly when some video or some document has status completed.
C3_ReadyIffCompletedSource ==
    LET any_completed ==
            \/ \E x \in AllVideos : folders[x[1]].videos[x[2]].status = "completed"
            \/ \E i \in 1..Len(documents) : documents[i].status = "completed"
    IN  /\ get_status.ready_for_analysis = any_completed
        /\ get_status.can_generate_script = any_completed

\* A completed document and a video that is not completed: ready.
C3_Witness ==
    /\ \E i \in 1..Len(documents) : documents[i].status = "completed"
    /\ AllVideos # {}
    /\ \A x \in AllVideos : folders[x[1]].videos[x[2]].status # "completed"
    /\ get_status.ready_for_analysis
    /\ get_status.can_generate_script

\* C4: with no completed video and no completed document, generate_from_prompt
\* with a prompt and analyze_content are rejected, no script is stored and no
\* chat session is opened.
C4_NoContentIsRejected ==
    (/\ last.op \in {"generate_from_prompt", "analyze_content"}
     /\ \A x \in AllVideos : folders[x[1]].videos[x[2]].status # "completed"
     /\ \A i \in 1..Len(documents) : documents[i].status # "completed")
    => /\ last.code # 200
       /\ ~current_script.present
       /\ chat_sessions = << >>

\* C5: the status of a video that stays in the store is left as it is or
\* moves pending -> processing, processing -> completed or processing ->
\* error; completed and error are never left.
C5_StatusMovesForward ==
    [][\A f \in DOMAIN folders : \A v \in DOMAIN folders[f].videos :
        (f \in DOMAIN folders' /\ v \in DOMAIN folders'[f].videos)
        => \/ folders'[f].videos[v].status = folders[f].videos[v].status
           \/ <<folders[f].videos[v].status, folders'[f].videos[v].status>> \in
                {<<"pending", "processing">>, <<"processing", "completed">>,
                 <<"processing", "error">>}]_vars

\* A completed video with its transcript stored, after a later request.
C5_Witness ==
    /\ \E x \in AllVideos :
        /\ folders[x[1]].videos[x[2]].status = "completed"
        /\ folders[x[1]].videos[x[2]].transcript # None
    /\ last.op = "upload_document"
    /\ last.code = 200

\* C6: when every call of the provider fails with a rate-limit error,
\* extract_transcript_details never makes more than max_retries calls, and it
\* returns after exactly max_retries attempts of one call each with the
\* rate-limit error.
C6_RateLimitExhaustsRetries ==
    (ex.pc # "idle" /\ ex.only_rate_limited)
    => /\ ex.calls <= ex.max_retries
       /\ ex.attempt < ex.max_retries
       /\ (ex.pc = "done" /\ ex.calls >= 1)
          => /\ ex.calls = ex.max_retries
             /\ ex.attempt = ex.max_retries - 1
             /\ ex.result =
                  ExFailed("API rate limit exceeded. Please try again in a few minutes")

\* Three rate-limited calls with the default max_retries, then the error.
C6_Witness ==
    /\ ex.pc = "done"
    /\ ex.only_rate_limited
    /\ ex.max_retries = default_max_retries
    /\ ex.calls = default_max_retries
    /\ ex.result.error = "API rate limit exceeded. Please try again in a few minutes"

\* C7: as soon as a call of the provider, at any of the three steps, signals
\* video-unavailable, transcripts-disabled, forbidden or not-found,
\* extract_transcript_details has returned the failure of that signal.
C7_TerminalSignalReturnsAtOnce ==
    (ex.pc # "idle" /\ ex.signal \in {"VideoUnavailable", "TranscriptsDisabled",
                                      "forbidden", "not_found"})
    => /\ ex.pc = "done"
       /\ ex.result.error =
            CASE ex.signal = "VideoUnavailable" ->
                    "Video is unavailable, private, or doesn't exist"
              [] ex.signal = "TranscriptsDisabled" ->
                    "Transcripts are disabled for this video"
              [] ex.signal = "forbidden" ->
                    "Access forbidden. Video might be private or restricted"
              [] ex.signal = "not_found" ->
                    "Video not found. Please check the URL"

\* C8: a process_document result without error carries a text of at least
\* min_chars characters once its whitespace is stripped.
C8_SuccessHasMeaningfulText ==
    (dp.pc = "done" /\ dp.result.error = None)
    => StrLen(Strip(dp.result.text)) >= min_chars

\* C9: the text an analyze_* method submits is no longer than its budget plus
\* the markers and separators it inserted: two markers for the style method,
\* one marker for each text and one separator between two texts for the
\* other two.
C9_CombinedWithinBudget ==
    bud.pc = "out"
    => LET n == Len(bud.lens)
       IN  StrLen(bud.out) <=
            IF bud.fn = "style"
            THEN bud.max_chars + 2 * StrLen(StyleMarker)
            ELSE bud.max_chars + n * StrLen(MarkerOf(bud.fn))
                    + (n - 1) * StrLen(SeparatorOf(bud.fn))

\* C10: when the join of the texts with the separator is within the budget
\* the submitted text is that join, and a single text within the budget is
\* submitted as it is.
C10_WithinBudgetUnchanged ==
    bud.pc = "out"
    => /\ StrLen(Join(SeparatorOf(bud.fn), BudTexts(bud))) <= bud.max_chars
          => bud.out = Join(SeparatorOf(bud.fn), BudTexts(bud))
       /\ (Len(bud.lens) = 1 /\ bud.lens[1] <= bud.max_chars)
          => bud.out = InputText(1, bud.lens[1])

\* Two texts whose join fills the style budget to the last character.
C10_Witness ==
    /\ bud.pc = "out"
    /\ bud.fn = "style"
    /\ Len(bud.lens) = 2
    /\ StrLen(Join(VideoSeparator, BudTexts(bud))) = max_chars_style
    /\ bud.out = Join(VideoSeparator, BudTexts(bud))

\* C11: an upload_document whose extraction fails (a text file of 40
\* characters) answers 400 with the extraction error, and leaves the documents
\* map and the analysis_cache exactly as they were.
C11_FailedUploadChangesNothing ==
    [][(/\ last'.op = "upload_document"
        /\ last'.code = 400
        /\ "error" \in DOMAIN last'
        /\ last'.error = "Could not extract meaningful text from document")
       => /\ documents' = documents
          /\ analysis_cache' = analysis_cache]_vars

\* The extraction of an upload failed while a document is stored and its
\* analysis is cached.
C11_Witness ==
    /\ last.op = "upload_document"
    /\ last.code = 400
    /\ "error" \in DOMAIN last
    /\ last.error = "Could not extract meaningful text from document"
    /\ documents # << >>
    /\ analysis_cache.analyzed

\* C12 as stated: after a successful update_script with a current script the
\* content of the current script is the text that was submitted.
C12_ContentIsSubmittedText ==
    (last.op = "update_script" /\ last.code = 200 /\ current_script.present)
    => current_script.content = last.submitted

\* C12 amended: a successful update_script with a current script sets its
\* content to the submitted text without its leading and trailing whitespace
\* and its timestamp to the time of the request, leaves its profiles and
\* prompt as they were, and leaves the messages of every chat session as
\* they were.
C12_UpdateKeepsMessages ==
    [][(last'.op = "update_script" /\ last'.code = 200 /\ current_script.present)
       => /\ current_script'.content = Strip(last'.submitted)
          /\ current_script'.timestamp = Timestamp("update_script", ids'.update)
          /\ current_script'.timestamp # current_script.timestamp
          /\ current_script'.style_profile = current_script.style_profile
          /\ current_script'.topic_insights = current_script.topic_insights
          /\ current_script'.document_insights = current_script.document_insights
          /\ current_script'.original_prompt = current_script.original_prompt
          /\ DOMAIN chat_sessions' = DOMAIN chat_sessions
          /\ \A c \in DOMAIN chat_sessions :
                chat_sessions'[c].messages = chat_sessions[c].messages]_vars

\* An update_script was accepted for a session that holds a message, and the
\* session has the new version.
C12_Witness ==
    /\ last.op = "update_script"
    /\ last.code = 200
    /\ current_script.present
    /\ current_script.content = Strip(last.submitted)
    /\ \E c \in DOMAIN chat_sessions :
        /\ chat_sessions[c].messages # << >>
        /\ Len(chat_sessions[c].script_versions) = 2

\* C13: chat_modify_script leaves the current script and every
\* script_versions list as they were, whatever the LLM returns, and the
\* content of the current script changes only in a step of update_script or
\* of generate_from_prompt.
C13_ChatLeavesScript ==
    [][/\ last'.op = "chat_modify_script"
          => /\ current_script' = current_script
             /\ DOMAIN chat_sessions' = DOMAIN chat_sessions
             /\ \A c \in DOMAIN chat_sessions :
                    chat_sessions'[c].script_versions = chat_sessions[c].script_versions
       /\ (current_script.present /\ current_script'.content # current_script.content)
          => last'.op \in {"update_script", "generate_from_prompt"}]_vars

\* A chat request was accepted, its failure text is in the messages of a
\* session, and the script is the one that was generated.
C13_Witness ==
    /\ last.op = "chat_modify_script"
    /\ last.code = 200
    /\ \E c \in DOMAIN chat_sessions :
        /\ Len(chat_sessions[c].messages) = 1
        /\ chat_sessions[c].messages[1].ai_response # "modification"
        /\ chat_sessions[c].script_versions = << current_script.content >>

\* C14: every chat_modify_script that answers success adds exactly one record
\* to the messages of one chat session, and every update_script that answers
\* success adds exactly one entry to the script_versions of one chat
\* session, whatever chat_session_id the request carries.
C14_AcceptedEditIsRecorded ==
    [][/\ (last'.op = "chat_modify_script" /\ last'.code = 200)
          => \E c \in DOMAIN chat_sessions :
                /\ Len(chat_sessions'[c].messages) = Len(chat_sessions[c].messages) + 1
                /\ \A d \in DOMAIN chat_sessions \ {c} :
                        chat_sessions'[d].messages = chat_sessions[d].messages
       /\ (last'.op = "update_script" /\ last'.code = 200)
          => \E c \in DOMAIN chat_sessions :
                /\ Len(chat_sessions'[c].script_versions) =
                        Len(chat_sessions[c].script_versions) + 1
                /\ \A d \in DOMAIN chat_sessions \ {c} :
                        chat_sessions'[d].script_versions =
                            chat_sessions[d].script_versions]_vars

\* C15: a generate_from_prompt that produces a script leaves as the whole
\* current script that script with the three profiles it was composed from,
\* the prompt and the time of the request, adds one chat session with no
\* message and that script as its only version, and leaves every chat session
\* that existed as it was.
C15_GenerateInstallsScript ==
    [][(/\ last'.op = "generate_from_prompt"
        /\ last'.code = 200
        /\ current_script'.content = generate_enhanced_script("text", ids'.session))
       => /\ current_script' =
                [present |-> TRUE,
                 content |-> generate_enhanced_script("text", ids'.session),
                 style_profile |-> analysis_cache'.style_profile,
                 topic_insights |-> analysis_cache'.inspiration_summary,
                 document_insights |-> analysis_cache'.document_insights,
                 original_prompt |-> "prompt",
                 timestamp |-> Timestamp("generate_from_prompt", ids'.session)]
          /\ analysis_cache.analyzed => analysis_cache' = analysis_cache
          /\ ids'.session \notin DOMAIN chat_sessions
          /\ DOMAIN chat_sessions' = DOMAIN chat_sessions \cup {ids'.session}
          /\ chat_sessions'[ids'.session] =
                [messages |-> << >>,
                 script_versions |-> << generate_enhanced_script("text", ids'.session) >>]
          /\ \A c \in DOMAIN chat_sessions : chat_sessions'[c] = chat_sessions[c]]_vars

\* A second script was generated after the first one was discussed and
\* edited: the first session keeps its message and its two versions.
C15_Witness ==
    /\ last.op = "generate_from_prompt"
    /\ last.code = 200
    /\ ids.session = 2
    /\ current_script.content = generate_enhanced_script("text", 2)
    /\ chat_sessions[2].script_versions = << current_script.content >>
    /\ Len(chat_sessions[1].messages) = 1
    /\ Len(chat_sessions[1].script_versions) = 2

\* C16: the string generate_enhanced_script returns for an empty response or
\* a failure of the LLM is never the content of the current script nor the
\* first version of a chat session.
C16_ErrorStringNotInstalled ==
    LET error_strings == {generate_enhanced_script("empty", 1),
                          generate_enhanced_script("raise", 1)}
    IN  /\ current_script.present => current_script.content \notin error_strings
        /\ \A c \in DOMAIN chat_sessions :
                chat_sessions[c].script_versions[1] \notin error_strings

\* C17: analyze_content answers success whatever the LLM does, and when it
\* computes the profiles each of them is, independently of the others, the
\* canned default of a kind without texts or what the analysis of the texts
\* of its kind gives: the response text or a placeholder string.
C17_AnalysisSurvivesLlmFailure ==
    [][last'.op = "analyze_content"
       => /\ last'.code = 200
          /\ analysis_cache'.analyzed
          /\ ~last'.cached
             => /\ analysis_cache'.style_profile \in
                    {Profile("default_analyze", << >>)} \cup
                    {Profile(k, personal_transcripts) :
                        k \in {"llm", "empty_response", "error"}}
                /\ analysis_cache'.inspiration_summary \in
                    {Profile("default_analyze", << >>)} \cup
                    {Profile(k, inspiration_transcripts) :
                        k \in {"llm", "empty_response", "error"}}
                /\ analysis_cache'.document_insights \in
                    {Profile("default_analyze", << >>)} \cup
                    {Profile(k, document_texts) :
                        k \in {"llm", "empty_response", "error"}}]_vars

\* The style analysis failed and the document analysis returned its text.
C17_Witness ==
    /\ last.op = "analyze_content"
    /\ last.code = 200
    /\ ~last.cached
    /\ analysis_cache.style_profile.kind = "error"
    /\ analysis_cache.document_insights.kind = "llm"

\* C18 as stated: in a successful analyze_content or generate_from_prompt the
\* LLM is called for a kind exactly when the store holds a usable text of
\* that kind.
C18_LlmCalledIffTexts ==
    (last.op \in {"analyze_content", "generate_from_prompt"} /\ last.code = 200)
    => LET called(profile) ==
                ~last.cached /\ profile.kind \notin {"default_analyze", "default_generate"}
       IN  /\ called(analysis_cache.style_profile) = (personal_transcripts # << >>)
           /\ called(analysis_cache.inspiration_summary) = (inspiration_transcripts # << >>)
           /\ called(analysis_cache.document_insights) = (document_texts # << >>)

\* C18 amended: in a successful analyze_content or generate_from_prompt that
\* does not take the profiles from the cache, the LLM is called for a kind
\* exactly when the store holds a usable text of that kind, and a kind
\* without one gets the canned default.
C18_LlmCalledIffTextsWhenComputed ==
    (/\ last.op \in {"analyze_content", "generate_from_prompt"}
     /\ last.code = 200
     /\ ~last.cached)
    => LET default == IF last.op = "analyze_content"
                      THEN Profile("default_analyze", << >>)
                      ELSE Profile("default_generate", << >>)
           right(profile, texts) ==
                IF texts # << >>
                THEN profile.kind \in {"llm", "empty_response", "error"}
                     /\ profile.of = texts
                ELSE profile = default
       IN  /\ right(analysis_cache.style_profile, personal_transcripts)
           /\ right(analysis_cache.inspiration_summary, inspiration_transcripts)
           /\ right(analysis_cache.document_insights, document_texts)

\* A generation computed the profiles with a document and no transcript: the
\* LLM analysed the documents alone.
C18_Witness ==
    /\ last.op = "generate_from_prompt"
    /\ last.code = 200
    /\ ~last.cached
    /\ document_texts # << >>
    /\ personal_transcripts = << >>
    /\ inspiration_transcripts = << >>
    /\ analysis_cache.document_insights.kind = "llm"
    /\ analysis_cache.style_profile = Profile("default_generate", << >>)

\* C19: the requests that add or remove a video, a document or a folder leave
\* insights_cache as it is, and the entry of a topic is removed or changed
\* only by clear_cache or by a successful get_topic_insights that writes the
\* entry of that topic.
C19_InsightsOutliveSources ==
    [][/\ last'.op \in {"upload_document", "delete_document", "create_folder",
                        "delete_folder", "add_video_to_folder",
                        "delete_video_from_folder", "process_video"}
          => insights_cache' = insights_cache
       /\ \A topic \in DOMAIN insights_cache :
            (\/ topic \notin DOMAIN insights_cache'
             \/ insights_cache'[topic] # insights_cache[topic])
            => \/ last'.op = "clear_cache"
               \/ /\ last'.op = "get_topic_insights"
                  /\ last'.code = 200
                  /\ ids'.topic = ids.topic + 1
                  /\ topic \in DOMAIN insights_cache'
                  /\ insights_cache'[topic].timestamp =
                        Timestamp("get_topic_insights", ids'.topic)]_vars

\* The folder whose video the insights of two topics were drawn from was
\* deleted, and both entries are still cached.
C19_Witness ==
    /\ last.op = "delete_folder"
    /\ last.code = 200
    /\ folders = << >>
    /\ DOMAIN insights_cache = {"a", "b"}
    /\ insights_cache["a"].source_count.videos = 1

\* C20: a request of one client leaves what every other client reads (its
\* folders and its documents) as it was.
C20_ClientsShareNothing ==
    [][\A c \in Clients :
        c # cl'.actor => ObservationIn(cl', c) = ObservationIn(cl, c)]_vars

\* C21: two callers of extract_transcript_details whose calls are under way
\* never both pass the delay check of rate_limit_wait against the same value
\* of last_api_call, and the first remote fetches of the calls of two
\* different callers start at least rate_limit_delay apart.
C21_DelayChecksSerialized ==
    /\ \A c, d \in Callers :
        (/\ c # d
         /\ rl.caller[c].pc \in {"record", "fetch"} /\ ~rl.caller[c].slept
         /\ rl.caller[d].pc \in {"record", "fetch"} /\ ~rl.caller[d].slept)
        => rl.caller[c].checked # rl.caller[d].checked
    /\ (/\ rl.prev.first /\ rl.fetch.first
        /\ rl.prev.by # rl.fetch.by)
       => rl.fetch.at - rl.prev.at >= rate_limit_delay

\* C29: two remote fetch attempts that one caller makes one after the other,
\* in one call of extract_transcript_details or in two, start at least
\* rate_limit_delay apart.
C29_FetchesOfOneCallerApart ==
    (rl.prev.by # 0 /\ rl.prev.by = rl.fetch.by)
    => rl.fetch.at - rl.prev.at >= rate_limit_delay

\* C22: get_status gives analysis_quality 'good' whenever exactly one of the
\* two video categories has a completed video and no document is completed;
\* it gives 'premium' exactly when both video categories and the documents
\* each have a completed Source, and 'basic' exactly when ready_for_analysis
\* is false.
C22_QualityClassification ==
    LET personal == CountVideos(TRUE, "completed") > 0
        inspiration == CountVideos(FALSE, "completed") > 0
        document == CompletedDocuments > 0
        quality == get_status.analysis_quality
    IN  /\ (personal # inspiration /\ ~document) => quality = "good"
        /\ (quality = "premium") = (personal /\ inspiration /\ document)
        /\ (quality = "basic") = ~get_status.ready_for_analysis

\* All three categories have a completed Source: premium.
C22_Witness ==
    /\ CountVideos(TRUE, "completed") = 1
    /\ CountVideos(FALSE, "completed") = 1
    /\ CompletedDocuments = 1
    /\ get_status.analysis_quality = "premium"

\* C23: the error message extract_transcript_details returns never holds the
\* text of an exception.
C23_NoExceptionTextInMessage ==
    (ex.pc = "done" /\ ex.result.error # None) => ex.result.exception = None

\* C24: a step of a background thread adds no folder and no video; a folder
\* id that was drawn and is no longer a folder never becomes one again; and
\* every transcript the cached profiles were computed from is the transcript
\* of a video that a folder holds, so what get_status counts and what the
\* analysis, the generation and the topic insights read holds no video of a
\* deleted folder.
C24_DeletedFolderStaysDeleted ==
    [][/\ last'.op = "process_video"
          => /\ DOMAIN folders' = DOMAIN folders
             /\ \A f \in DOMAIN folders :
                    DOMAIN folders'[f].videos \subseteq DOMAIN folders[f].videos
       /\ \A f \in 1..ids.folder : f \notin DOMAIN folders => f \notin DOMAIN folders'
       /\ analysis_cache'.analyzed
          => LET Range(q) == {q[i] : i \in 1..Len(q)}
             IN  /\ Range(analysis_cache'.style_profile.of)
                        \subseteq Range(personal_transcripts')
                 /\ Range(analysis_cache'.inspiration_summary.of)
                        \subseteq Range(inspiration_transcripts')]_vars

\* The thread of a video ended after the folder of the video was deleted.
C24_Witness ==
    /\ last.op = "process_video"
    /\ ids.video = MaxVideos
    /\ ids.folder = MaxFolders
    /\ folders = << >>
    /\ threads = << >>

C26_CreateFolderEmptiesCache ==
    (last.op = "create_folder" /\ last.code = 200) => analysis_cache = EmptyCache

\* C27: extract_video_id gives abc123 for https://youtu.be/abc123, and a URL
\* whose host is notyoutube.com is rejected by add_video_to_folder and never
\* fetched.
C27_ForeignHostIsRejected ==
    /\ extract_video_id(Url("https:", << "youtu.be" >>, << "/", "abc123" >>))
            = << "abc123" >>
    /\ (ur.pc # "request" /\ netloc(ur.url) = << "not", "youtube.com" >>)
       => ur.pc = "rejected" /\ ur.code = 400 /\ ur.fetches = 0

\* C28: when the joined texts exceed the budget, the text an analyze_* method
\* submits holds, for every input text, its first character and its last
\* character.
C28_EveryTextKeepsBothEnds ==
    (/\ bud.pc = "out"
     /\ StrLen(Join(SeparatorOf(bud.fn), BudTexts(bud))) > bud.max_chars)
    => \A i \in 1..Len(bud.lens) :
        /\ \E k \in 1..Len(bud.out) :
                bud.out[k].src = TextNames[i] /\ bud.out[k].lo = 0
        /\ \E k \in 1..Len(bud.out) :
                bud.out[k].src = TextNames[i] /\ bud.out[k].hi = bud.lens[i]

\* C30: the text of a process_document result without error is the extracted
\* text itself when that has at most max_chars characters, and otherwise its
\* first max_chars characters followed by the truncation marker; it is never
\* longer than max_chars plus the marker, and char_count is its length.
C30_TruncatedAtCeiling ==
    (dp.pc = "done" /\ dp.result.error = None)
    => LET extracted == extract_method(dp.file)
           stored == dp.result.text
           marker == StrLen(TruncationMarker)
       IN  /\ StrLen(extracted) <= max_chars => stored = extracted
           /\ StrLen(extracted) > max_chars
              => /\ StrLen(stored) = max_chars + marker
                 /\ PySlice(stored, 0, max_chars) = PySlice(extracted, 0, max_chars)
                 /\ PySlice(stored, max_chars, max_chars + marker) = TruncationMarker
           /\ StrLen(stored) <= max_chars + marker
           /\ dp.result.stats.char_count = StrLen(stored)

\* A text of 100,001 characters of content after 3 of whitespace was cut.
C30_Witness ==
    /\ dp.pc = "done"
    /\ dp.result.error = None
    /\ dp.file.ext = "txt"
    /\ StrLen(extract_method(dp.file)) = max_chars + 4
    /\ StrLen(dp.result.text) = max_chars + StrLen(TruncationMarker)
    /\ dp.result.stats.char_count = max_chars + StrLen(TruncationMarker)

\* C31: for a PDF, the fallback is used exactly when the structured method
\* raised or gave fewer than min_chars characters after stripping; the text
\* of a result for which the fallback was used is the fallback's output
\* alone; and the result is an error exactly when the text finally obtained
\* has fewer than min_chars characters after stripping.
C31_PdfFallbackAloneFromFifty ==
    (dp.pc = "done" /\ dp.file.ext = "pdf")
    => LET first == dp.file.first
           second == dp.file.second
           fallback == first.raised \/ StrLen(Strip(first.text)) < min_chars
           obtained == IF fallback THEN second.text ELSE first.text
           failed == \/ fallback /\ second.raised
                     \/ StrLen(Strip(obtained)) < min_chars
       IN  /\ (dp.result.error # None) <=> failed
           /\ dp.result.error = None => dp.result.text = Truncate(obtained)

(***************************************************************************)
(* generate_gemini_content (src/test.py).  Every generate_content call is  *)
(* answered with a text, with an empty text, or with an exception, which   *)
(* carries the set of the substrings "quota", "rate" and "safety" its lowered   *)
(* message holds.  gm.retries has one entry for each attempt after the     *)
(* first: the seconds the warning after the failure before it announced (0 *)
(* when that failure printed none) and the seconds slept before it.        *)
(***************************************************************************)
MaxGeminiRetries == 3

GmSubstrings == {"quota", "rate", "safety"}
GmOutcomes ==
    {[kind |-> k, msg |-> {}] : k \in {"text", "empty"}}
    \cup {[kind |-> "raise", msg |-> m] : m \in SUBSET GmSubstrings}

GmRaised(o) == o.kind = "raise"
GmIsQuota(o) == GmRaised(o) /\ ("quota" \in o.msg \/ "rate" \in o.msg)
GmIsSafety(o) == GmRaised(o) /\ ~GmIsQuota(o) /\ "safety" \in o.msg

\* wait_time = 3 * attempt, slept before attempt > 0
GmWaitTime(attempt) == 3 * attempt
\* f"Gemini API rate limit. Waiting {3 * (attempt + 2)} seconds..."
GmAnnounced(attempt) == 3 * (attempt + 2)

GeminiInit ==
    \E n \in 0..MaxGeminiRetries :
        gm = [pc |-> "for", max_retries |-> n, attempt |-> 0, calls |-> << >>,
              announced |-> 0, retries |-> << >>, result |-> None]

\* for attempt in range(max_retries): ... if attempt > 0: time.sleep(wait_time)
GmFor ==
    /\ gm.pc = "for"
    /\ gm' = IF gm.attempt >= gm.max_retries
             THEN [gm EXCEPT !.pc = "done",
                             !.result = "Error: Failed to generate summary after multiple attempts."]
             ELSE IF gm.attempt > 0
             THEN [gm EXCEPT !.pc = "call",
                             !.retries = Append(@, [announced |-> gm.announced,
                                                    slept |-> GmWaitTime(gm.attempt)])]
             ELSE [gm EXCEPT !.pc = "call"]
    /\ UNCHANGED <<storeVars, ex, dp, bud, cl, rl, ur, rq>>

\* response = model.generate_content(...) and the branches after it
GmCall ==
    /\ gm.pc = "call"
    /\ \E o \in GmOutcomes :
        LET called == [gm EXCEPT !.calls = Append(@, o)]
            again(announced) == [called EXCEPT !.pc = "for", !.attempt = @ + 1,
                                               !.announced = announced]
            done(msg) == [called EXCEPT !.pc = "done", !.result = msg]
        IN  gm' = CASE o.kind = "text" -> done("response.text")
                    [] o.kind = "empty" -> done("Error: Empty response from Gemini API.")
                    [] GmIsQuota(o) ->
                         IF gm.attempt < gm.max_retries - 1
                         THEN again(GmAnnounced(gm.attempt))
                         ELSE done("Error: Gemini API quota exceeded. Please try again later.")
                    [] GmIsSafety(o) ->
                         done("Error: Content flagged by safety filters. Try a different video.")
                    [] OTHER ->
                         IF gm.attempt = gm.max_retries - 1
                         THEN done("Error generating summary after max_retries attempts")
                         ELSE again(0)
    /\ UNCHANGED <<storeVars, ex, dp, bud, cl, rl, ur, rq>>

InitGemini ==
    /\ StoreInit /\ ids = FreshIds /\ llm = Reliable
    /\ ex = ExIdle /\ dp = DpIdle /\ bud = BudIdle /\ cl = ClIdle /\ rl = RlIdle
    /\ ur = UrIdle /\ GeminiInit /\ rq = RqIdle
NextGemini == GmFor \/ GmCall
SpecGemini == InitGemini /\ [][NextGemini]_vars

\* C32: generate_gemini_content makes at most max_retries calls and ends with
\* a string; when every call failed for quota or rate it ends with the quota
\* message after exactly max_retries calls; a failure classified as safety is
\* the last call; and the wait before each attempt after the first is longer
\* than the one before it and is the wait the warning after the preceding
\* failure announced.
C32_BoundedCallsAndAnnouncedWaits ==
    /\ Len(gm.calls) <= gm.max_retries
    /\ gm.pc = "done" => gm.result # None
    /\ (/\ gm.pc = "done"
        /\ gm.calls # << >>
        /\ \A i \in 1..Len(gm.calls) : GmIsQuota(gm.calls[i]))
       => /\ Len(gm.calls) = gm.max_retries
          /\ gm.result = "Error: Gemini API quota exceeded. Please try again later."
    /\ \A i \in 1..Len(gm.calls) :
          GmIsSafety(gm.calls[i]) => (i = Len(gm.calls) /\ gm.pc = "done")
    /\ \A k \in 1..Len(gm.retries) :
          /\ k > 1 => gm.retries[k].slept > gm.retries[k - 1].slept
          /\ gm.retries[k].announced # 0
             => gm.retries[k].slept = gm.retries[k].announced

SourceSet ==
    [videos |-> [f \in DOMAIN folders |-> DOMAIN folders[f].videos],
     documents |-> documents]

InFlight(handler, used, user_prompt) ==
    [pc |-> handler, used |-> used, read |-> analysis_cache,
     user_prompt |-> user_prompt, sources |-> SourceSet]

\* analyze_content up to the return of the analyze_* calls
FlAnalyzeGather ==
    /\ rq.pc = "idle"
    /\ ~analysis_cache.analyzed
    /\ \E os \in OutcomeChoices :
          rq' = InFlight("analyze_content", Analysis(os, "default_analyze"), "")
    /\ UNCHANGED <<storeVars, ex, dp, bud, cl, rl, ur, gm>>

\* analyze_content from the cache write on
FlAnalyzeStore ==
    /\ rq.pc = "analyze_content"
    /\ IF Raised(rq.used)
       THEN /\ last' = Resp("analyze_content", 500, FALSE)
            /\ UNCHANGED analysis_cache
       ELSE /\ analysis_cache' = rq.used
            /\ last' = Resp("analyze_content", 200, FALSE)
    /\ rq' = RqIdle
    /\ UNCHANGED <<folders, documents, current_script, chat_sessions, threads, ids,
                   llm, insights_cache, ex, dp, bud, cl, rl, ur, gm>>

\* generate_from_prompt up to the return of the analyze_* calls
FlGenerateGather ==
    /\ rq.pc = "idle"
    /\ ~analysis_cache.analyzed
    /\ \E user_prompt \in Prompts :
        IF user_prompt = ""
        THEN /\ last' = Resp("generate_from_prompt", 400, FALSE)
             /\ UNCHANGED rq
        ELSE /\ \E os \in OutcomeChoices :
                  rq' = InFlight("generate_from_prompt",
                                 Analysis(os, "default_generate"), user_prompt)
             /\ UNCHANGED last
    /\ UNCHANGED <<folders, documents, analysis_cache, current_script, chat_sessions,
                   threads, ids, llm, insights_cache, ex, dp, bud, cl, rl, ur, gm>>

\* generate_from_prompt from the cache write on
FlGenerateStore ==
    /\ rq.pc = "generate_from_prompt"
    /\ \E outcome \in llm.script :
        IF Raised(rq.used)
        THEN /\ last' = Resp("generate_from_prompt", 500, FALSE)
             /\ UNCHANGED <<analysis_cache, current_script, chat_sessions, ids>>
        ELSE GenerateScript(rq.used, rq.read, rq.user_prompt, outcome)
    /\ rq' = RqIdle
    /\ UNCHANGED <<folders, documents, threads, llm, insights_cache,
                   ex, dp, bud, cl, rl, ur, gm>>

\* The two handlers when the cache answers: no LLM call is made.
FlAnalyzeCached == rq.pc = "idle" /\ analysis_cache.analyzed /\ analyze_content
FlGenerateCached == rq.pc = "idle" /\ analysis_cache.analyzed /\ generate_from_prompt

InitFlight ==
    /\ StoreInit /\ ids = FreshIds /\ llm = Reliable
    /\ ex = ExIdle /\ dp = DpIdle /\ bud = BudIdle /\ cl = ClIdle /\ rl = RlIdle
    /\ ur = UrIdle /\ gm = GmIdle /\ rq = RqIdle
NextFlight ==
    \/ upload_document
    \/ delete_document
    \/ FlAnalyzeGather
    \/ FlAnalyzeStore
    \/ FlGenerateGather
    \/ FlGenerateStore
    \/ FlAnalyzeCached
    \/ FlGenerateCached
SpecFlight == InitFlight /\ [][NextFlight]_vars

\* The texts the profiles of an analysed cache were computed from.
ProfiledTexts(cache) ==
    [personal |-> cache.style_profile.of,
     inspiration |-> cache.inspiration_summary.of,
     documents |-> cache.document_insights.of]

\* C34: when an analyze_content or a generate_from_prompt ends and the
\* sources are no longer those it gathered from, the cache it leaves is
\* empty or holds profiles computed from the texts of the sources there are
\* now.
C34_CacheFollowsSourcesInFlight ==
    [][(rq.pc # "idle" /\ rq'.pc = "idle" /\ SourceSet' # rq.sources)
       => \/ ~analysis_cache'.analyzed
          \/ ProfiledTexts(analysis_cache') =
                [personal |-> personal_transcripts',
                 inspiration |-> inspiration_transcripts',
                 documents |-> document_texts']]_vars

\* C35: in every state a reader can see, a video whose status is completed
\* has its transcript and its stats, and the videos get_status counts as
\* completed are as many as the transcripts an analysis gathers.
C35_CompletedHasTranscriptAndStats ==
    /\ \A x \in AllVideos :
          LET video == folders[x[1]].videos[x[2]]
          IN  video.status = "completed"
              => video.transcript # None /\ video.stats # None
    /\ CountVideos(TRUE, "completed") + CountVideos(FALSE, "completed")
          = Len(personal_transcripts) + Len(inspiration_transcripts)

\* C36: when there is a current script, its content is the last of the
\* script_versions of the chat session the generate_from_prompt that made
\* the script opened, which is the session opened last.
C36_ContentIsLastVersion ==
    current_script.present
    => LET versions == chat_sessions[ids.session].script_versions
       IN  current_script.content = versions[Len(versions)]

\* C37: in a 200 response of generate_from_prompt, has_documents is true and
\* generation_type is 'enhanced_with_documents' exactly when the document
\* insights the script was generated with came from at least one document
\* text, and stats counts the texts the three profiles used were computed
\* from, whether the profiles came from the cache or from the request itself.
C37_DocumentFlagsFollowProfilesUsed ==
    (last.op = "generate_from_prompt" /\ last.code = 200)
    => LET with_documents == current_script.document_insights.of # << >>
       IN  /\ last.has_documents <=> with_documents
           /\ (last.generation_type = "enhanced_with_documents") <=> with_documents
           /\ last.stats =
                [personal_videos |-> Len(current_script.style_profile.of),
                 inspiration_videos |-> Len(current_script.topic_insights.of),
                 documents |-> Len(current_script.document_insights.of)]

\* C38: in a 200 response of generate_from_prompt, has_topic_insights is true
\* exactly when the inspiration summary the script was generated with came
\* from at least one inspiration transcript, whether analyze_content cached
\* it or the request computed it.
C38_TopicFlagFollowsSummaryUsed ==
    (last.op = "generate_from_prompt" /\ last.code = 200)
    => (last.has_topic_insights <=> current_script.topic_insights.of # << >>)

(***************************************************************************)
(* SpecRequests: every request handler that can answer with a 4xx status,  *)
(* the background threads and an LLM service that may fail, in a session   *)
(* that can still draw one folder id, one video id and one chat session    *)
(* id.                                                                     *)
(***************************************************************************)
InitRequests == InitCache
NextRequests == NextCache \/ chat_modify_script \/ update_script
SpecRequests == InitRequests /\ [][NextRequests]_vars

InitLive == Init
NextLive == Next
SpecLive ==
    /\ InitLive /\ [][NextLive]_vars
    /\ WF_vars(PvStart) /\ WF_vars(PvExtract) /\ WF_vars(PvStorePayload)

VideoWaiting(f, v) ==
    VideoExists(f, v) /\ folders[f].videos[v].status \in {"pending", "processing"}
VideoSettled(f, v) ==
    ~VideoExists(f, v) \/ folders[f].videos[v].status \in {"completed", "error"}

\* C40: a video that is pending or processing is, at some later time, deleted
\* or completed or in error.
C40_EveryVideoIsSettled ==
    \A f \in FolderIds, v \in VideoIds : VideoWaiting(f, v) ~> VideoSettled(f, v)

\* A video that was added is still in its folder, its thread has ended and
\* its status is completed or error.
C40_Witness ==
    \E f \in DOMAIN folders :
        \E v \in DOMAIN folders[f].videos :
            /\ v \notin DOMAIN threads
            /\ folders[f].videos[v].status \in {"completed", "error"}

=============================================================================
